---- MODULE Spec2Model ----
(***************************************************************************)
(* External-account credentials of google-auth (python): the base class    *)
(* google/auth/external_account.py, its executable-sourced subclass        *)
(* google/auth/pluggable.py, its file/URL-sourced subclass                 *)
(* google/auth/identity_pool.py and the authorized-user credential         *)
(* google/auth/external_account_authorized_user.py.                        *)
(*                                                                         *)
(* Python values are represented as follows.                               *)
(*   - an optional string is a string; None is the string "None" and the   *)
(*     empty string is "".  Python truthiness of such a value is Truthy.   *)
(*   - an optional list is a record [isNone, items].                       *)
(*   - an audience string is the sequence of its "/"-separated segments    *)
(*     (what str.split("/") returns).                                      *)
(*   - a URL string is a record [text, ws, scheme, host, last]: text says  *)
(*     whether the value is None, "" or a non-empty string, ws whether the *)
(*     string has inner whitespace, host is the sequence of "."-separated  *)
(*     labels, each label a sequence of atoms (words and "-"), and last is *)
(*     the atoms of the final path segment.                                *)
(*   - a JSON object is a function from its keys; a key that is absent is  *)
(*     not in the DOMAIN.                                                  *)
(*   - an exception is the name of its class in the field outcome; "ok"    *)
(*     is a normal return.                                                 *)
(***************************************************************************)
EXTENDS Integers, Sequences, FiniteSets, TLC

VARIABLES creds, aus, now, last, expectRT, calls

vars == <<creds, aus, now, last, expectRT, calls>>

\* ------------------------------------------------------------------------
\* Bounds of the model
\* ------------------------------------------------------------------------

\* number of external-account credential objects kept in the heap
MaxCreds == 4

\* the clock runs from 0 to MaxTime
MaxTime == 3

\* the number of workers that share a credential
NumWorkers == 2

\* ------------------------------------------------------------------------
\* Python values
\* ------------------------------------------------------------------------

None == "None"

Truthy(s) == s # None /\ s # ""

NoExpiry == -1

NoneInt == -1000000

NoneList == [isNone |-> TRUE, items |-> <<>>]

List(s) == [isNone |-> FALSE, items |-> s]

ListTruthy(l) == ~l.isNone /\ l.items # <<>>

\* the exception classes the specification calls configuration errors
ConfigErrors == {"ValueError", "MalformedError"}

\* ------------------------------------------------------------------------
\* URLs and the host allow-lists
\* ------------------------------------------------------------------------

\* A URL string by the parts the code reads: text tells None, "" and other
\* strings apart; ws is white space between two other characters (str.split
\* yields more than one piece); edge is white space before the scheme
\* ("leading") or after the path ("trailing"), which str.split strips;
\* parses is FALSE when parse_url raises.
Url(scheme, host, lastSeg) ==
  [text |-> "str", ws |-> FALSE, edge |-> "none", parses |-> TRUE,
   scheme |-> scheme, host |-> host, last |-> lastSeg]

UrlNone ==
  [text |-> "None", ws |-> FALSE, edge |-> "none", parses |-> TRUE,
   scheme |-> "", host |-> <<>>, last |-> <<>>]

UrlEmpty ==
  [text |-> "empty", ws |-> FALSE, edge |-> "none", parses |-> TRUE,
   scheme |-> "", host |-> <<>>, last |-> <<>>]

UrlTruthy(u) == u.text = "str"

GoogleApis == << <<"googleapis">>, <<"com">> >>

\* https://sts.googleapis.com/v1/token
UrlSts == Url("https", << <<"sts">> >> \o GoogleApis, <<"token">>)

\* https://us-east1-sts.googleapis.com/v1/token
UrlStsRegional == Url("https", << <<"us", "-", "east1", "-", "sts">> >> \o GoogleApis, <<"token">>)

\* https://STS.googleapis.com/v1/token
UrlStsUpper == Url("https", << <<"STS">> >> \o GoogleApis, <<"token">>)

\* http://sts.googleapis.com/v1/token
UrlStsHttp == Url("http", << <<"sts">> >> \o GoogleApis, <<"token">>)

\* https://sts.googleapis.com.evil.com/v1/token
UrlStsEvil == Url("https", << <<"sts">> >> \o GoogleApis \o << <<"evil">>, <<"com">> >>, <<"token">>)

\* https://sts.googleapis.com/v1/ token
UrlStsSpace == [UrlSts EXCEPT !.ws = TRUE]

\* https://iamcredentials.googleapis.com/v1/projects/-/serviceAccounts/sa@p:generateAccessToken
UrlIam == Url("https", << <<"iamcredentials">> >> \o GoogleApis, <<"sa@p", ":generateAccessToken">>)

\* https://iamcredentials.googleapis.com/v1/projects/-/serviceAccounts/:generateAccessToken
UrlIamNoEmail == Url("https", << <<"iamcredentials">> >> \o GoogleApis, <<":generateAccessToken">>)

\* https://iamcredentials.evil.com/v1/projects/-/serviceAccounts/sa@p:generateAccessToken
UrlIamEvil == Url("https", << <<"iamcredentials">>, <<"evil">>, <<"com">> >>, <<"sa@p", ":generateAccessToken">>)

\* str.lower() on the atoms of a hostname
LowerAtom(a) ==
  CASE a = "STS" -> "sts"
    [] a = "IAMCredentials" -> "iamcredentials"
    [] a = "GoogleAPIs" -> "googleapis"
    [] OTHER -> a

LowerHost(h) == [i \in DOMAIN h |-> [j \in DOMAIN h[i] |-> LowerAtom(h[i][j])]]

\* the character class [^\.\s\/\\]+ : a non-empty run without ".", white
\* space, "/" or "\"
WildRun(atoms) ==
  /\ atoms # <<>>
  /\ \A j \in DOMAIN atoms : atoms[j] \notin {".", " ", "/", "\\"}

\* one label of a pattern is a sequence of literal atoms with at most one
\* wildcard "*" ([^\.\s\/\\]+), at the start or at the end
LabelMatch(lp, l) ==
  IF lp # <<>> /\ lp[1] = "*"
  THEN /\ Len(l) >= Len(lp)
       /\ SubSeq(l, Len(l) - Len(lp) + 2, Len(l)) = Tail(lp)
       /\ WildRun(SubSeq(l, 1, Len(l) - Len(lp) + 1))
  ELSE IF lp # <<>> /\ lp[Len(lp)] = "*"
  THEN /\ Len(l) >= Len(lp)
       /\ SubSeq(l, 1, Len(lp) - 1) = SubSeq(lp, 1, Len(lp) - 1)
       /\ WildRun(SubSeq(l, Len(lp), Len(l)))
  ELSE l = lp

\* re.compile(p).match(hostname) for an anchored pattern ^...$
HostMatch(p, h) ==
  /\ Len(h) = Len(p)
  /\ \A i \in DOMAIN p : LabelMatch(p[i], h[i])

\* the five host patterns of a service name
HostPatterns(svc) ==
  { << <<"*">>, <<svc>> >> \o GoogleApis,
    << <<svc>> >> \o GoogleApis,
    << <<svc>>, <<"*">> >> \o GoogleApis,
    << <<"*", "-", svc>> >> \o GoogleApis,
    << <<svc, "-", "*">>, <<"p">> >> \o GoogleApis }

TOKEN_URL_PATTERNS == HostPatterns("sts")

SERVICE_ACCOUNT_IMPERSONATION_URL_PATTERNS == HostPatterns("iamcredentials")

is_valid_url_mut(patterns, url) ==
  IF url.text # "str" \/ url.ws
  THEN FALSE
  ELSE IF ~url.parses \/ url.edge = "leading"
  THEN FALSE
  ELSE IF url.scheme = "" \/ url.host = <<>>
  THEN FALSE
  ELSE \E p \in patterns : HostMatch(p, LowerHost(url.host))

\* Credentials.is_valid_url.  "not url or len(str(url).split()) > 1" rejects
\* None, "" and white space between other characters; parse_url raising is
\* caught; behind leading white space parse_url finds no scheme; white space
\* after the path stays in the path and goes through to the host test.
is_valid_url(patterns, url) ==
  IF url.text # "str" \/ url.ws
  THEN FALSE
  ELSE IF ~url.parses \/ url.edge = "leading"
  THEN FALSE
  ELSE IF url.scheme = "" \/ url.scheme # "https" \/ url.host = <<>>
  THEN FALSE
  ELSE \E p \in patterns : HostMatch(p, LowerHost(url.host))

\* TRUE when validate_token_url returns, FALSE when it raises ValueError
validate_token_url(token_url) == is_valid_url(TOKEN_URL_PATTERNS, token_url)

validate_service_account_impersonation_url(url) ==
  is_valid_url(SERVICE_ACCOUNT_IMPERSONATION_URL_PATTERNS, url)

\* ------------------------------------------------------------------------
\* Audiences
\* ------------------------------------------------------------------------

\* //iam.googleapis.com/locations/global/workforcePools/pool/providers/prov
AudWorkforce ==
  <<"", "", "iam.googleapis.com", "locations", "global", "workforcePools",
    "pool", "providers", "prov">>

\* //iam.googleapis.com/projects/123/locations/global/workloadIdentityPools/pool/providers/prov
AudWorkload ==
  <<"", "", "iam.googleapis.com", "projects", "123", "locations", "global",
    "workloadIdentityPools", "pool", "providers", "prov">>

\* re.match of //iam\.googleapis\.com/locations/[^/]+/workforcePools/ at the
\* start of the audience
is_workforce_pool(audience) ==
  /\ Len(audience) >= 7
  /\ audience[1] = "" /\ audience[2] = ""
  /\ audience[3] = "iam.googleapis.com"
  /\ audience[4] = "locations"
  /\ audience[5] # ""
  /\ audience[6] = "workforcePools"

\* ------------------------------------------------------------------------
\* credential_source
\* ------------------------------------------------------------------------

SrcBlank ==
  [is_mapping |-> TRUE, file |-> None, url |-> None, environment_id |-> FALSE,
   format_type |-> None, subject_token_field_name |-> None,
   executable |-> FALSE, command |-> None, timeout_millis |-> NoneInt,
   interactive_timeout_millis |-> NoneInt, output_file |-> None]

\* credential_source = None
SrcNotMapping == [SrcBlank EXCEPT !.is_mapping = FALSE]

\* {"file": "/tmp/t"}
SrcFile == [SrcBlank EXCEPT !.file = "/tmp/t"]

\* {"url": "http://idp/t", "format": {"type": "json", "subject_token_field_name": "tok"}}
SrcUrl ==
  [SrcBlank EXCEPT !.url = "http://idp/t", !.format_type = "json",
                   !.subject_token_field_name = "tok"]

\* {"executable": {"command": "cmd"}}
SrcExec == [SrcBlank EXCEPT !.executable = TRUE, !.command = "cmd"]

\* {"executable": {"command": "cmd", "output_file": "/tmp/out"}}
SrcExecOut == [SrcExec EXCEPT !.output_file = "/tmp/out"]

EXECUTABLE_SUPPORTED_MAX_VERSION == 1

EXECUTABLE_TIMEOUT_MILLIS_DEFAULT == 30 * 1000

EXECUTABLE_TIMEOUT_MILLIS_LOWER_BOUND == 5 * 1000

EXECUTABLE_TIMEOUT_MILLIS_UPPER_BOUND == 120 * 1000

EXECUTABLE_INTERACTIVE_TIMEOUT_MILLIS_DEFAULT == 5 * 60 * 1000

EXECUTABLE_INTERACTIVE_TIMEOUT_MILLIS_LOWER_BOUND == 5 * 60 * 1000

EXECUTABLE_INTERACTIVE_TIMEOUT_MILLIS_UPPER_BOUND == 30 * 60 * 1000

\* ------------------------------------------------------------------------
\* Construction of external-account credentials
\* ------------------------------------------------------------------------

\* the keyword parameters of Credentials.__init__ (interactive is the keyword
\* the pluggable subclass pops before calling the base class)
ArgNames ==
  {"audience", "subject_token_type", "token_url", "credential_source",
   "service_account_impersonation_url", "service_account_impersonation_options",
   "client_id", "client_secret", "quota_project_id", "scopes", "default_scopes",
   "workforce_pool_user_project", "interactive"}

NoOptions == [token_lifetime_seconds |-> NoneInt]

\* the defaults of the parameters that have one
ArgDefaults ==
  [service_account_impersonation_url |-> UrlNone,
   service_account_impersonation_options |-> NoOptions,
   client_id |-> None, client_secret |-> None, quota_project_id |-> None,
   scopes |-> NoneList, default_scopes |-> NoneList,
   workforce_pool_user_project |-> None, interactive |-> FALSE]

NoEmail == <<None>>

\* everything after the last "/" of the URL
service_account_email_mut(url) ==
  IF UrlTruthy(url) THEN url.last ELSE NoEmail

\* the substring of the URL between its last "/" and ":generateAccessToken"
service_account_email(url) ==
  IF UrlTruthy(url)
  THEN IF \E i \in DOMAIN url.last : url.last[i] = ":generateAccessToken"
       THEN LET end_index == CHOOSE i \in DOMAIN url.last :
                               /\ url.last[i] = ":generateAccessToken"
                               /\ \A j \in 1..(i - 1) : url.last[j] # ":generateAccessToken"
            IN  SubSeq(url.last, 1, end_index - 1)
       ELSE NoEmail
  ELSE NoEmail

EmailTruthy(e) == e # NoEmail /\ e # <<>>

NoImpersonated ==
  [set |-> FALSE, source |-> 0, target_principal |-> NoEmail,
   target_scopes |-> NoneList, quota_project_id |-> None,
   iam_endpoint_override |-> UrlNone, lifetime |-> NoneInt,
   token |-> None, expiry |-> NoExpiry]

\* the keys of the dictionary constructor_args returns
ConstructorArgKeys(c) ==
  (ArgNames \ {"interactive"})
    \ (IF ~is_workforce_pool(c.audience) THEN {"workforce_pool_user_project"} ELSE {})

\* the values of the dictionary constructor_args returns
\* constructor arguments that leave the scopes behind
constructor_args_noscopes(c) ==
  [audience |-> c.audience,
   subject_token_type |-> c.subject_token_type,
   token_url |-> c.token_url,
   credential_source |-> c.credential_source,
   service_account_impersonation_url |-> UrlNone,
   service_account_impersonation_options |-> NoOptions,
   client_id |-> c.client_id,
   client_secret |-> c.client_secret,
   quota_project_id |-> c.quota_project_id,
   scopes |-> NoneList,
   default_scopes |-> c.default_scopes,
   workforce_pool_user_project |-> c.workforce_pool_user_project]

constructor_args(c) ==
  [audience |-> c.audience,
   subject_token_type |-> c.subject_token_type,
   token_url |-> c.token_url,
   credential_source |-> c.credential_source,
   service_account_impersonation_url |-> UrlNone,
   service_account_impersonation_options |-> NoOptions,
   client_id |-> c.client_id,
   client_secret |-> c.client_secret,
   quota_project_id |-> c.quota_project_id,
   scopes |-> c.scopes,
   default_scopes |-> c.default_scopes,
   workforce_pool_user_project |-> c.workforce_pool_user_project]

\* the arguments __init__ receives from f(**d, **extra): the keys of d, then
\* those of extra, the defaults for the parameters neither has
BindArgs(dKeys, d, extraKeys, extra) ==
  [k \in ArgNames |->
     IF k \in extraKeys THEN extra[k]
     ELSE IF k \in dKeys THEN d[k]
     ELSE ArgDefaults[k]]

\* the object after the assignments of the base class __init__
NewObject(cls, a) ==
  [cls |-> cls,
   audience |-> a.audience,
   subject_token_type |-> a.subject_token_type,
   token_url |-> a.token_url,
   credential_source |-> a.credential_source,
   service_account_impersonation_url |-> a.service_account_impersonation_url,
   service_account_impersonation_options |-> a.service_account_impersonation_options,
   client_id |-> a.client_id,
   client_secret |-> a.client_secret,
   quota_project_id |-> a.quota_project_id,
   scopes |-> a.scopes,
   default_scopes |-> a.default_scopes,
   workforce_pool_user_project |-> a.workforce_pool_user_project,
   interactive |-> IF cls = "pluggable" THEN a.interactive ELSE FALSE,
   token |-> None,
   expiry |-> NoExpiry,
   project_id |-> None,
   impersonated_credentials |-> NoImpersonated,
   supplier |-> None,
   timeout_millis |-> NoneInt,
   interactive_timeout_millis |-> NoneInt]

IntTruthy(n) == n # NoneInt /\ n # 0

\* the condition under which __init__ raises ValueError for a workforce pool
\* user project on a credential that is not a workforce pool
workforce_guard_mut(c) ==
  is_workforce_pool(c.audience) /\ Truthy(c.workforce_pool_user_project)

workforce_guard(c) ==
  ~is_workforce_pool(c.audience) /\ Truthy(c.workforce_pool_user_project)

\* the checks of pluggable.Credentials.__init__ after the base class returned
PluggableInit(c) ==
  LET src == c.credential_source
      tm == IF IntTruthy(src.timeout_millis)
            THEN src.timeout_millis ELSE EXECUTABLE_TIMEOUT_MILLIS_DEFAULT
      itm == IF IntTruthy(src.interactive_timeout_millis)
             THEN src.interactive_timeout_millis
             ELSE EXECUTABLE_INTERACTIVE_TIMEOUT_MILLIS_DEFAULT
  IN  IF ~src.is_mapping THEN [outcome |-> "ValueError", obj |-> c]
      ELSE IF ~src.executable THEN [outcome |-> "ValueError", obj |-> c]
      ELSE IF ~Truthy(src.command) THEN [outcome |-> "ValueError", obj |-> c]
      ELSE IF /\ IntTruthy(src.timeout_millis)
              /\ \/ src.timeout_millis < EXECUTABLE_TIMEOUT_MILLIS_LOWER_BOUND
                 \/ src.timeout_millis > EXECUTABLE_TIMEOUT_MILLIS_UPPER_BOUND
      THEN [outcome |-> "ValueError", obj |-> c]
      ELSE IF /\ IntTruthy(src.interactive_timeout_millis)
              /\ \/ src.interactive_timeout_millis < EXECUTABLE_INTERACTIVE_TIMEOUT_MILLIS_LOWER_BOUND
                 \/ src.interactive_timeout_millis > EXECUTABLE_INTERACTIVE_TIMEOUT_MILLIS_UPPER_BOUND
      THEN [outcome |-> "ValueError", obj |-> c]
      ELSE [outcome |-> "ok",
            obj |-> [c EXCEPT !.timeout_millis = tm, !.interactive_timeout_millis = itm]]

\* identity_pool.Credentials.__init__ without the test for both file and url
IdentityPoolInit_mut(c) ==
  LET src == c.credential_source
      file == IF src.is_mapping THEN src.file ELSE None
      url == IF src.is_mapping THEN src.url ELSE None
  IN  IF ~Truthy(file) /\ ~Truthy(url)
      THEN [outcome |-> "MalformedError", obj |-> c]
      ELSE [outcome |-> "ok",
            obj |-> [c EXCEPT !.supplier = IF Truthy(file) THEN "file" ELSE "url"]]

\* the checks of identity_pool.Credentials.__init__ after the base class
\* returned, and the supplier it creates
IdentityPoolInit(c) ==
  LET src == c.credential_source
      file == IF src.is_mapping THEN src.file ELSE None
      url == IF src.is_mapping THEN src.url ELSE None
      format_type == IF Truthy(src.format_type) THEN src.format_type ELSE "text"
  IN  IF src.is_mapping /\ src.environment_id
      THEN [outcome |-> "MalformedError", obj |-> c]
      ELSE IF src.is_mapping /\ format_type \notin {"text", "json"}
      THEN [outcome |-> "MalformedError", obj |-> c]
      ELSE IF src.is_mapping /\ format_type = "json" /\ src.subject_token_field_name = None
      THEN [outcome |-> "MalformedError", obj |-> c]
      ELSE IF Truthy(file) /\ Truthy(url)
      THEN [outcome |-> "MalformedError", obj |-> c]
      ELSE IF ~Truthy(file) /\ ~Truthy(url)
      THEN [outcome |-> "MalformedError", obj |-> c]
      ELSE [outcome |-> "ok",
            obj |-> [c EXCEPT !.supplier = IF Truthy(file) THEN "file" ELSE "url"]]

SubclassInit(c) ==
  IF c.cls = "pluggable" THEN PluggableInit(c) ELSE IdentityPoolInit(c)

\* the impersonated_credentials.Credentials object built by
\* _initialize_impersonated_credentials; source is the heap index of the
\* source credential
ImpersonatedFor(c, source) ==
  [set |-> TRUE,
   source |-> source,
   target_principal |-> service_account_email(c.service_account_impersonation_url),
   target_scopes |-> IF ~c.scopes.isNone THEN c.scopes ELSE c.default_scopes,
   quota_project_id |-> c.quota_project_id,
   iam_endpoint_override |-> c.service_account_impersonation_url,
   lifetime |-> c.service_account_impersonation_options.token_lifetime_seconds,
   token |-> None,
   expiry |-> NoExpiry]

\* cls(**a): the constructor of class cls, base class first, then the
\* subclass.  objs are the objects whose __init__ completed, in the order of
\* completion, to be stored from heap index base + 1 on.
RECURSIVE Construct(_, _, _)
Construct(cls, a, base) ==
  LET self == NewObject(cls, a)
      imp == a.service_account_impersonation_url
  IN  IF ~validate_token_url(a.token_url)
      THEN [outcome |-> "ValueError", objs |-> <<>>]
      ELSE IF UrlTruthy(imp) /\ ~validate_service_account_impersonation_url(imp)
      THEN [outcome |-> "ValueError", objs |-> <<>>]
      ELSE
        LET src == IF UrlTruthy(imp)
                   THEN Construct(cls,
                                  BindArgs(ConstructorArgKeys(self), constructor_args(self), {}, <<>>),
                                  base)
                   ELSE [outcome |-> "ok", objs |-> <<>>]
        IN  IF src.outcome # "ok" THEN src
            ELSE IF UrlTruthy(imp) /\ ~EmailTruthy(service_account_email(imp))
            THEN [outcome |-> "RefreshError", objs |-> src.objs]
            ELSE
              LET self2 == [self EXCEPT !.impersonated_credentials =
                              IF UrlTruthy(imp)
                              THEN ImpersonatedFor(self, base + Len(src.objs))
                              ELSE NoImpersonated]
                  sub == SubclassInit(self2)
              IN  IF workforce_guard(self2)
                  THEN [outcome |-> "ValueError", objs |-> src.objs]
                  ELSE IF sub.outcome # "ok"
                  THEN [outcome |-> sub.outcome, objs |-> src.objs]
                  ELSE [outcome |-> "ok", objs |-> src.objs \o <<sub.obj>>]

\* cls(**d, **extra) : a keyword given twice is a TypeError of the call
KwCall(cls, dKeys, d, extraKeys, extra, base) ==
  IF dKeys \cap extraKeys # {}
  THEN [outcome |-> "TypeError", objs |-> <<>>]
  ELSE Construct(cls, BindArgs(dKeys, d, extraKeys, extra), base)

with_scopes(c, scopes, default_scopes, base) ==
  KwCall(c.cls, ConstructorArgKeys(c), constructor_args(c),
         {"scopes", "default_scopes"},
         [scopes |-> scopes, default_scopes |-> default_scopes], base)

with_quota_project(c, quota_project_id, base) ==
  KwCall(c.cls, ConstructorArgKeys(c), constructor_args(c),
         {"quota_project_id"}, [quota_project_id |-> quota_project_id], base)

with_token_uri(c, token_uri, base) ==
  LET d == [audience |-> c.audience,
            subject_token_type |-> c.subject_token_type,
            token_url |-> token_uri,
            credential_source |-> c.credential_source,
            service_account_impersonation_url |-> c.service_account_impersonation_url,
            service_account_impersonation_options |-> c.service_account_impersonation_options,
            client_id |-> c.client_id,
            client_secret |-> c.client_secret,
            quota_project_id |-> c.quota_project_id,
            scopes |-> c.scopes,
            default_scopes |-> c.default_scopes,
            workforce_pool_user_project |-> c.workforce_pool_user_project]
  IN  KwCall(c.cls, ConstructorArgKeys(c), d, {}, <<>>, base)

\* from_info: every parameter but scopes, default_scopes and interactive is
\* passed, with info.get(key) (None when the key is absent)
from_info(cls, infoKeys, info, base) ==
  LET get(k, dflt) == IF k \in infoKeys THEN info[k] ELSE dflt
      d == [audience |-> info.audience,
            subject_token_type |-> get("subject_token_type", None),
            token_url |-> get("token_url", UrlNone),
            service_account_impersonation_url |-> get("service_account_impersonation_url", UrlNone),
            service_account_impersonation_options |->
              get("service_account_impersonation", NoOptions),
            client_id |-> get("client_id", None),
            client_secret |-> get("client_secret", None),
            credential_source |-> get("credential_source", SrcNotMapping),
            quota_project_id |-> get("quota_project_id", None),
            workforce_pool_user_project |-> get("workforce_pool_user_project", None)]
  IN  KwCall(cls, ArgNames \ {"scopes", "default_scopes", "interactive"}, d, {}, <<>>, base)

\* ------------------------------------------------------------------------
\* The executable-sourced supplier (pluggable.py)
\* ------------------------------------------------------------------------

TokenTypeJwt == "urn:ietf:params:oauth:token-type:jwt"

TokenTypeIdToken == "urn:ietf:params:oauth:token-type:id_token"

TokenTypeSaml2 == "urn:ietf:params:oauth:token-type:saml2"

Has(obj, k) == k \in DOMAIN obj

\* the test for an expired response in _parse_subject_token
token_expired_mut(response, t) ==
  Has(response, "expiration_time") /\ response.expiration_time > t

token_expired(response, t) ==
  Has(response, "expiration_time") /\ response.expiration_time < t

parse_subject_token_mut(c, response, t) ==
  IF ~Has(response, "version")
  THEN [outcome |-> "ValueError", value |-> None]
  ELSE IF response.version > EXECUTABLE_SUPPORTED_MAX_VERSION
  THEN [outcome |-> "RefreshError", value |-> None]
  ELSE IF ~Has(response, "success")
  THEN [outcome |-> "ValueError", value |-> None]
  ELSE IF ~response.success
  THEN IF ~Has(response, "code") \/ ~Has(response, "message")
       THEN [outcome |-> "ValueError", value |-> None]
       ELSE [outcome |-> "RefreshError", value |-> None,
             detail |-> <<response.code, response.message>>]
  ELSE IF ~Has(response, "token_type")
  THEN [outcome |-> "ValueError", value |-> None]
  ELSE IF /\ ~Has(response, "expiration_time")
          /\ ~c.interactive
          /\ Truthy(c.credential_source.output_file)
  THEN [outcome |-> "ValueError", value |-> None]
  ELSE IF token_expired(response, t)
  THEN [outcome |-> "RefreshError", value |-> None]
  ELSE IF response.token_type \in {TokenTypeJwt, TokenTypeIdToken}
  THEN IF Has(response, "id_token")
       THEN [outcome |-> "ok", value |-> response.id_token]
       ELSE [outcome |-> "KeyError", value |-> None]
  ELSE IF response.token_type = TokenTypeSaml2
  THEN IF Has(response, "saml_response")
       THEN [outcome |-> "ok", value |-> response.saml_response]
       ELSE [outcome |-> "KeyError", value |-> None]
  ELSE [outcome |-> "RefreshError", value |-> None]

\* a parser that takes every token type it does not know for an OIDC type
parse_subject_token_anytype(c, response, t) ==
  IF ~Has(response, "version")
  THEN [outcome |-> "ValueError", value |-> None]
  ELSE IF response.version > EXECUTABLE_SUPPORTED_MAX_VERSION
  THEN [outcome |-> "RefreshError", value |-> None]
  ELSE IF ~Has(response, "success")
  THEN [outcome |-> "ValueError", value |-> None]
  ELSE IF ~response.success
  THEN IF ~Has(response, "code") \/ ~Has(response, "message")
       THEN [outcome |-> "ValueError", value |-> None]
       ELSE [outcome |-> "RefreshError", value |-> None,
             detail |-> <<response.code, response.message>>]
  ELSE IF /\ ~Has(response, "expiration_time")
          /\ ~c.interactive
          /\ Truthy(c.credential_source.output_file)
  THEN [outcome |-> "ValueError", value |-> None]
  ELSE IF token_expired(response, t)
  THEN [outcome |-> "RefreshError", value |-> None]
  ELSE IF ~Has(response, "token_type")
  THEN [outcome |-> "ValueError", value |-> None]
  ELSE IF response.token_type = TokenTypeSaml2
  THEN IF Has(response, "saml_response")
       THEN [outcome |-> "ok", value |-> response.saml_response]
       ELSE [outcome |-> "KeyError", value |-> None]
  ELSE IF Has(response, "id_token")
  THEN [outcome |-> "ok", value |-> response.id_token]
  ELSE [outcome |-> "KeyError", value |-> None]

\* _parse_subject_token(response) when time.time() returns t
parse_subject_token(c, response, t) ==
  IF ~Has(response, "version")
  THEN [outcome |-> "ValueError", value |-> None]
  ELSE IF response.version > EXECUTABLE_SUPPORTED_MAX_VERSION
  THEN [outcome |-> "RefreshError", value |-> None]
  ELSE IF ~Has(response, "success")
  THEN [outcome |-> "ValueError", value |-> None]
  ELSE IF ~response.success
  THEN IF ~Has(response, "code") \/ ~Has(response, "message")
       THEN [outcome |-> "ValueError", value |-> None]
       ELSE [outcome |-> "RefreshError", value |-> None,
             detail |-> <<response.code, response.message>>]
  ELSE IF /\ ~Has(response, "expiration_time")
          /\ ~c.interactive
          /\ Truthy(c.credential_source.output_file)
  THEN [outcome |-> "ValueError", value |-> None]
  ELSE IF token_expired(response, t)
  THEN [outcome |-> "RefreshError", value |-> None]
  ELSE IF ~Has(response, "token_type")
  THEN [outcome |-> "ValueError", value |-> None]
  ELSE IF response.token_type \in {TokenTypeJwt, TokenTypeIdToken}
  THEN IF Has(response, "id_token")
       THEN [outcome |-> "ok", value |-> response.id_token]
       ELSE [outcome |-> "KeyError", value |-> None]
  ELSE IF response.token_type = TokenTypeSaml2
  THEN IF Has(response, "saml_response")
       THEN [outcome |-> "ok", value |-> response.saml_response]
       ELSE [outcome |-> "KeyError", value |-> None]
  ELSE [outcome |-> "RefreshError", value |-> None]

\* a value stored in the environment of the child: its python type and text
PyStr(s) == [t |-> IF s = None THEN "NoneType" ELSE "str", v |-> s]

PyInt(digits) == [t |-> "int", v |-> digits]

EmailValue(e) ==
  IF e = NoEmail THEN PyStr(None)
  ELSE IF e = <<>> THEN PyStr("")
  ELSE PyStr(e[1])

\* the variables retrieve_subject_token adds to a copy of os.environ
SubjectTokenEnv(c) ==
  [GOOGLE_EXTERNAL_ACCOUNT_AUDIENCE |-> [t |-> "str", v |-> "audience"],
   GOOGLE_EXTERNAL_ACCOUNT_TOKEN_TYPE |-> PyStr(c.subject_token_type),
   GOOGLE_EXTERNAL_ACCOUNT_ID |->
     EmailValue(service_account_email(c.service_account_impersonation_url)),
   GOOGLE_EXTERNAL_ACCOUNT_INTERACTIVE |-> PyStr(IF c.interactive THEN "1" ELSE "0"),
   GOOGLE_EXTERNAL_ACCOUNT_REVOKE |-> PyInt("0")]
  @@ (IF c.service_account_impersonation_url.text # "None"
      THEN [GOOGLE_EXTERNAL_ACCOUNT_IMPERSONATED_EMAIL |->
              EmailValue(service_account_email(c.service_account_impersonation_url))]
      ELSE <<>>)
  @@ (IF c.credential_source.output_file # None
      THEN [GOOGLE_EXTERNAL_ACCOUNT_OUTPUT_FILE |-> PyStr(c.credential_source.output_file)]
      ELSE <<>>)

\* the variables revoke adds to a copy of os.environ
RevokeEnv(c) ==
  [GOOGLE_EXTERNAL_ACCOUNT_AUDIENCE |-> [t |-> "str", v |-> "audience"],
   GOOGLE_EXTERNAL_ACCOUNT_TOKEN_TYPE |-> PyStr(c.subject_token_type),
   GOOGLE_EXTERNAL_ACCOUNT_ID |->
     EmailValue(service_account_email(c.service_account_impersonation_url)),
   GOOGLE_EXTERNAL_ACCOUNT_INTERACTIVE |-> PyStr("1"),
   GOOGLE_EXTERNAL_ACCOUNT_REVOKE |-> PyStr("1"),
   GOOGLE_EXTERNAL_ACCOUNT_OUTPUT_FILE |-> PyStr(c.credential_source.output_file)]
  @@ (IF c.service_account_impersonation_url.text # "None"
      THEN [GOOGLE_EXTERNAL_ACCOUNT_IMPERSONATED_EMAIL |->
              EmailValue(service_account_email(c.service_account_impersonation_url))]
      ELSE <<>>)

\* subprocess.run(command, timeout, env): the standard library raises
\* TypeError, before a child exists, when a value of env is not a string;
\* otherwise the child is spawned and either exits within exe_timeout
\* (milliseconds here) or is killed and TimeoutExpired is raised
subprocess_run(env, exe, exe_timeout) ==
  IF \E k \in DOMAIN env : env[k].t # "str"
  THEN [outcome |-> "TypeError", returncode |-> 0, stdout |-> exe.stdout,
        events |-> <<"subprocess.run">>]
  ELSE IF exe.duration_millis > exe_timeout
  THEN [outcome |-> "TimeoutExpired", returncode |-> 0, stdout |-> exe.stdout,
        events |-> <<"subprocess.run", "spawn", "kill">>]
  ELSE [outcome |-> "ok", returncode |-> exe.returncode, stdout |-> exe.stdout,
        events |-> <<"subprocess.run", "spawn">>]

\* json.load / json.loads of a text: the text is missing, is not JSON, or is
\* the JSON object data
NoData == [nothing |-> TRUE]

TextMissing == [kind |-> "missing", data |-> NoData]

TextGarbage == [kind |-> "garbage", data |-> NoData]

TextJson(obj) == [kind |-> "json", data |-> obj]

\* the test of GOOGLE_EXTERNAL_ACCOUNT_ALLOW_EXECUTABLES that opens
\* retrieve_subject_token and revoke
executables_allowed_mut(E) == E.allow # None

executables_allowed(E) == E.allow = "1"

\* an interactive check that forgets the audience
interactive_refused_mut(c) ==
  c.interactive /\ ~Truthy(c.credential_source.output_file)

\* the two tests of interactive mode in retrieve_subject_token: each raises
\* ValueError, for a missing output file and for an audience that is not a
\* workforce pool
interactive_refused(c) ==
  \/ c.interactive /\ ~Truthy(c.credential_source.output_file)
  \/ c.interactive /\ ~is_workforce_pool(c.audience)

\* pluggable.Credentials.retrieve_subject_token.  E gives the environment
\* of the call: E.allow the value of GOOGLE_EXTERNAL_ACCOUNT_ALLOW_EXECUTABLES,
\* E.file the output file before the call, E.exe the behaviour of the
\* executable, E.time the value of time.time()
pluggable_retrieve_subject_token(c, E) ==
  LET output_file == c.credential_source.output_file
      cached == parse_subject_token(c, E.file.data, E.time)
      readEv == IF output_file # None THEN <<"read_output_file">> ELSE <<>>
      \* the result of the "Check output file" block: hit, raise or fall through
      cache ==
        IF output_file = None \/ E.file.kind # "json" THEN "miss"
        ELSE IF cached.outcome = "ok"
             THEN IF ~Has(E.file.data, "expiration_time") THEN "miss" ELSE "hit"
             ELSE IF cached.outcome = "RefreshError" THEN "miss" ELSE "raise"
      exe_timeout == IF c.interactive THEN c.interactive_timeout_millis
                     ELSE c.timeout_millis
      result == subprocess_run(SubjectTokenEnv(c), E.exe, exe_timeout)
      text == IF c.interactive THEN E.exe.file_after ELSE E.exe.stdout
      parsed == parse_subject_token(c, text.data, E.time)
  IN  IF ~executables_allowed(E)
      THEN [outcome |-> "ValueError", value |-> None, events |-> <<>>]
      ELSE IF interactive_refused(c)
      THEN [outcome |-> "ValueError", value |-> None, events |-> <<>>]
      ELSE IF cache = "hit"
      THEN [outcome |-> "ok", value |-> cached.value, events |-> readEv]
      ELSE IF cache = "raise"
      THEN [outcome |-> cached.outcome, value |-> None, events |-> readEv]
      ELSE IF result.outcome # "ok"
      THEN [outcome |-> result.outcome, value |-> None, events |-> readEv \o result.events]
      ELSE IF result.returncode # 0
      THEN [outcome |-> "RefreshError", value |-> None, events |-> readEv \o result.events]
      ELSE IF text.kind = "missing"
      THEN [outcome |-> "FileNotFoundError", value |-> None,
            events |-> readEv \o result.events \o <<"read_output_file">>]
      ELSE IF text.kind = "garbage"
      THEN [outcome |-> "JSONDecodeError", value |-> None,
            events |-> readEv \o result.events
                       \o (IF c.interactive THEN <<"read_output_file">> ELSE <<>>)]
      ELSE [outcome |-> parsed.outcome, value |-> parsed.value,
            events |-> readEv \o result.events
                       \o (IF c.interactive THEN <<"read_output_file">> ELSE <<>>)]

\* a revoke that does not ask for interactive mode
revoke_mut(c, E) ==
  LET result == subprocess_run(RevokeEnv(c), E.exe, c.interactive_timeout_millis)
  IN  IF ~executables_allowed(E)
      THEN [outcome |-> "ValueError", value |-> None, events |-> <<>>]
      ELSE IF result.outcome # "ok"
      THEN [outcome |-> result.outcome, value |-> None, events |-> result.events]
      ELSE IF result.returncode # 0
      THEN [outcome |-> "RefreshError", value |-> None, events |-> result.events]
      ELSE [outcome |-> "ok", value |-> None, events |-> result.events]

\* pluggable.Credentials.revoke
revoke(c, E) ==
  LET result == subprocess_run(RevokeEnv(c), E.exe, c.interactive_timeout_millis)
  IN  IF ~executables_allowed(E)
      THEN [outcome |-> "ValueError", value |-> None, events |-> <<>>]
      ELSE IF ~c.interactive
      THEN [outcome |-> "ValueError", value |-> None, events |-> <<>>]
      ELSE IF result.outcome # "ok"
      THEN [outcome |-> result.outcome, value |-> None, events |-> result.events]
      ELSE IF result.returncode # 0
      THEN [outcome |-> "RefreshError", value |-> None, events |-> result.events]
      ELSE [outcome |-> "ok", value |-> None, events |-> result.events]

\* identity_pool.Credentials.retrieve_subject_token: the argument
\* self._supplier_context is evaluated before the supplier is called, and no
\* code of the class or of its base class sets that attribute
identity_pool_retrieve_subject_token(c, E) ==
  [outcome |-> "AttributeError", value |-> None, events |-> <<>>]

retrieve_subject_token(c, E) ==
  IF c.cls = "pluggable" THEN pluggable_retrieve_subject_token(c, E)
  ELSE identity_pool_retrieve_subject_token(c, E)

\* ------------------------------------------------------------------------
\* STS client and impersonation client (google.oauth2.sts and
\* google.auth.impersonated_credentials, described by the specification)
\* ------------------------------------------------------------------------

\* the margin of Credentials.valid
Skew == 1

\* one POST to the token endpoint; reply is what the transport does with it
sts_request(reply) ==
  IF reply.kind = "transport"
  THEN [outcome |-> "TransportError", data |-> NoData, events |-> <<"http_sts">>]
  ELSE IF reply.kind = "error"
  THEN [outcome |-> "OAuthError", data |-> NoData, events |-> <<"http_sts">>]
  ELSE [outcome |-> "ok", data |-> reply.data, events |-> <<"http_sts">>]

\* Credentials.expired of the base class: a credential without expiry is
\* not expired
Expired(c, t) == c.expiry # NoExpiry /\ t >= c.expiry - Skew

\* Credentials.valid of the base class of all credentials
Valid(c, t) == c.token # None /\ (c.expiry = NoExpiry \/ t < c.expiry - Skew)

\* ------------------------------------------------------------------------
\* refresh of an external-account credential (external_account.py)
\* ------------------------------------------------------------------------

\* response_data.get(key)
Get(obj, k, dflt) == IF Has(obj, k) THEN obj[k] ELSE dflt

\* _make_sts_request: the keyword arguments of exchange_token are evaluated
\* in order; subject_token calls retrieve_subject_token, and the argument
\* scopes=scopes that follows reads a name that is neither a local of this
\* method nor a global of the module, which is a NameError.  exchange_token
\* is therefore never called.
make_sts_request(c, E) ==
  LET subject_token == retrieve_subject_token(c, E)
  IN  IF subject_token.outcome # "ok"
      THEN [outcome |-> subject_token.outcome, data |-> NoData,
            events |-> <<"retrieve_subject_token">> \o subject_token.events]
      ELSE [outcome |-> "NameError", data |-> NoData,
            events |-> <<"retrieve_subject_token">> \o subject_token.events]

\* assignments that take the lifetime of the response as the expiry
StoreResponse_mut(c, data, t) ==
  LET c1 == [c EXCEPT !.token = Get(data, "access_token", None)]
  IN  IF ~Has(data, "expires_in")
      THEN [outcome |-> "TypeError", obj |-> c1]
      ELSE [outcome |-> "ok", obj |-> [c1 EXCEPT !.expiry = data.expires_in]]

\* the assignments of refresh that follow a response of STS: token first,
\* then timedelta(seconds=...), a TypeError when expires_in is absent, then
\* expiry
StoreResponse(c, data, t) ==
  LET c1 == [c EXCEPT !.token = Get(data, "access_token", None)]
  IN  IF ~Has(data, "expires_in")
      THEN [outcome |-> "TypeError", obj |-> c1]
      ELSE [outcome |-> "ok", obj |-> [c1 EXCEPT !.expiry = t + data.expires_in]]

\* a refresh that exchanges at STS itself, whether or not impersonation is
\* configured
refresh_mut(h, i, E, t) ==
  LET response_data == sts_request(E.sts)
      stored == StoreResponse(h[i], response_data.data, t)
  IN  IF response_data.outcome # "ok"
      THEN [outcome |-> response_data.outcome, heap |-> h,
            events |-> response_data.events]
      ELSE [outcome |-> stored.outcome,
            heap |-> [h EXCEPT ![i] = stored.obj],
            events |-> response_data.events]

\* Credentials.refresh on the object at index i of heap h, the clock reading
\* t.  The impersonation client refreshes its source credential when that
\* one is not valid, then posts to the IAM-credentials endpoint (E.iam).
RECURSIVE refresh(_, _, _, _)
refresh(h, i, E, t) ==
  LET c == h[i]
      ic == c.impersonated_credentials
  IN  IF ic.set
      THEN
        LET s == IF ~Valid(h[ic.source], t)
                 THEN refresh(h, ic.source, E, t)
                 ELSE [outcome |-> "ok", heap |-> h, events |-> <<>>]
        IN  IF s.outcome # "ok" THEN s
            ELSE IF E.iam.kind # "ok"
            THEN [outcome |-> "RefreshError", heap |-> s.heap,
                  events |-> s.events \o <<"http_iam">>]
            ELSE
              LET ic2 == [ic EXCEPT !.token = E.iam.accessToken,
                                    !.expiry = E.iam.expireTime]
              IN  [outcome |-> "ok",
                   heap |-> [s.heap EXCEPT ![i] =
                               [c EXCEPT !.impersonated_credentials = ic2,
                                         !.token = ic2.token,
                                         !.expiry = ic2.expiry]],
                   events |-> s.events \o <<"http_iam">>]
      ELSE
        LET response_data == make_sts_request(c, E)
            stored == StoreResponse(c, response_data.data, t)
        IN  IF response_data.outcome # "ok"
            THEN [outcome |-> response_data.outcome, heap |-> h,
                  events |-> response_data.events]
            ELSE [outcome |-> stored.outcome,
                  heap |-> [h EXCEPT ![i] = stored.obj],
                  events |-> response_data.events]

\* ------------------------------------------------------------------------
\* get_project_id (external_account.py)
\* ------------------------------------------------------------------------

\* project_number: the component after the first "projects" of the audience
\* split on "/", None when there is none or it is empty
project_number(audience) ==
  LET found == {k \in DOMAIN audience : audience[k] = "projects"}
  IN  IF found = {} THEN None
      ELSE LET project_index == CHOOSE k \in found : \A j \in found : k <= j
           IN  IF project_index + 1 <= Len(audience)
               THEN (IF audience[project_index + 1] # ""
                     THEN audience[project_index + 1] ELSE None)
               ELSE None

\* Credentials.before_request of the base class: a credential that is not
\* valid is refreshed before its token goes into the headers
before_request(h, i, E, t) ==
  IF Valid(h[i], t)
  THEN [outcome |-> "ok", heap |-> h, events |-> <<>>]
  ELSE refresh(h, i, E, t)

\* the scopes get_project_id tests
EffectiveScopes(c) == IF ~c.scopes.isNone THEN c.scopes ELSE c.default_scopes

\* the project number get_project_id uses
NumberFor(c) ==
  IF Truthy(project_number(c.audience))
  THEN project_number(c.audience)
  ELSE c.workforce_pool_user_project

\* the statements of get_project_id that follow before_request, whose
\* result is b: the GET, then json.loads of the body, then the test of the
\* status
RequestProject(b, i, E) ==
  IF b.outcome # "ok"
  THEN [outcome |-> b.outcome, value |-> None, heap |-> b.heap,
        events |-> b.events]
  ELSE IF E.crm.body.kind # "json"
  THEN [outcome |-> "ValueError", value |-> None, heap |-> b.heap,
        events |-> b.events \o <<"http_crm">>]
  ELSE IF E.crm.status = 200
  THEN LET id == Get(E.crm.body.data, "projectId", None)
       IN  [outcome |-> "ok", value |-> id,
            heap |-> [b.heap EXCEPT ![i] = [b.heap[i] EXCEPT !.project_id = id]],
            events |-> b.events \o <<"http_crm">>]
  ELSE [outcome |-> "ok", value |-> None, heap |-> b.heap,
        events |-> b.events \o <<"http_crm">>]

\* the statements of get_project_id from before_request on
LookupProject(h, i, E, t) == RequestProject(before_request(h, i, E, t), i, E)

\* a get_project_id that looks the project up whatever the scopes are
get_project_id_mut(h, i, E, t) ==
  LET c == h[i]
  IN  IF Truthy(c.project_id)
      THEN [outcome |-> "ok", value |-> c.project_id, heap |-> h, events |-> <<>>]
      ELSE IF Truthy(NumberFor(c))
      THEN LookupProject(h, i, E, t)
      ELSE [outcome |-> "ok", value |-> None, heap |-> h, events |-> <<>>]

\* a get_project_id that keeps the scopes it computed on the credential
get_project_id_keeps_scopes(h, i, E, t) ==
  LET c == h[i]
      kept == [h EXCEPT ![i] = [c EXCEPT !.scopes = EffectiveScopes(c)]]
  IN  IF Truthy(c.project_id)
      THEN [outcome |-> "ok", value |-> c.project_id, heap |-> h, events |-> <<>>]
      ELSE IF Truthy(NumberFor(c)) /\ ListTruthy(EffectiveScopes(c))
      THEN LookupProject(kept, i, E, t)
      ELSE [outcome |-> "ok", value |-> None, heap |-> kept, events |-> <<>>]

\* Credentials.get_project_id on the object at index i of heap h
get_project_id(h, i, E, t) ==
  LET c == h[i]
  IN  IF Truthy(c.project_id)
      THEN [outcome |-> "ok", value |-> c.project_id, heap |-> h, events |-> <<>>]
      ELSE IF Truthy(NumberFor(c)) /\ ListTruthy(EffectiveScopes(c))
      THEN LookupProject(h, i, E, t)
      ELSE [outcome |-> "ok", value |-> None, heap |-> h, events |-> <<>>]

\* ------------------------------------------------------------------------
\* The authorized-user credential (external_account_authorized_user.py)
\* ------------------------------------------------------------------------

AuthorizedUser(refresh_token, token, expiry) ==
  [audience |-> "aud", refresh_token |-> refresh_token,
   token_url |-> "https://sts.googleapis.com/v1/oauthtoken",
   token_info_url |-> "https://sts.googleapis.com/v1/introspect",
   client_id |-> "username", client_secret |-> "password",
   token |-> token, expiry |-> expiry, expiry_micro |-> 0,
   revoke_url |-> None, quota_project_id |-> None]

\* the request of _make_sts_request: the STS client made by __init__ from
\* token_url and Basic client authentication posts a refresh_token grant
\* with the stored refresh token
au_request(c) ==
  [method |-> "POST", url |-> c.token_url,
   auth |-> [type |-> "basic", username |-> c.client_id,
             password |-> c.client_secret],
   body |-> [grant_type |-> "refresh_token", refresh_token |-> c.refresh_token]]

au_refresh_mut(c, reply, t) ==
  LET response_data == sts_request(reply)
      stored == StoreResponse(c, response_data.data, t)
  IN  IF response_data.outcome # "ok"
      THEN [outcome |-> response_data.outcome, obj |-> c,
            sent |-> c.refresh_token, events |-> response_data.events]
      ELSE IF stored.outcome # "ok"
      THEN [outcome |-> stored.outcome, obj |-> stored.obj,
            sent |-> c.refresh_token, events |-> response_data.events]
      ELSE [outcome |-> "ok",
            obj |-> [stored.obj EXCEPT !.refresh_token =
                       Get(response_data.data, "refresh_token", None)],
            sent |-> c.refresh_token, events |-> response_data.events]

\* a refresh that sends its request a second time when the first one failed
au_refresh_retry(c, reply, t) ==
  LET response_data == sts_request(reply)
      stored == StoreResponse(c, response_data.data, t)
  IN  IF response_data.outcome # "ok"
      THEN [outcome |-> response_data.outcome, obj |-> c,
            sent |-> c.refresh_token,
            events |-> response_data.events \o sts_request(reply).events]
      ELSE IF stored.outcome # "ok"
      THEN [outcome |-> stored.outcome, obj |-> stored.obj,
            sent |-> c.refresh_token, events |-> response_data.events]
      ELSE [outcome |-> "ok",
            obj |-> IF Has(response_data.data, "refresh_token")
                    THEN [stored.obj EXCEPT !.refresh_token = response_data.data.refresh_token]
                    ELSE stored.obj,
            sent |-> c.refresh_token, events |-> response_data.events]

\* Credentials.refresh of the authorized-user credential: the request
\* carries the stored refresh token; token, expiry and the refresh token are
\* assigned in this order, the expiry after timedelta(seconds=...)
au_refresh(c, reply, t) ==
  LET response_data == sts_request(reply)
      stored == StoreResponse(c, response_data.data, t)
  IN  IF response_data.outcome # "ok"
      THEN [outcome |-> response_data.outcome, obj |-> c,
            sent |-> c.refresh_token, events |-> response_data.events]
      ELSE IF stored.outcome # "ok"
      THEN [outcome |-> stored.outcome, obj |-> stored.obj,
            sent |-> c.refresh_token, events |-> response_data.events]
      ELSE [outcome |-> "ok",
            obj |-> IF Has(response_data.data, "refresh_token")
                    THEN [stored.obj EXCEPT !.refresh_token = response_data.data.refresh_token]
                    ELSE stored.obj,
            sent |-> c.refresh_token, events |-> response_data.events]

\* A datetime is held as whole seconds (expiry) and microseconds
\* (expiry_micro).  utcnow() reads t seconds and us microseconds; adding
\* timedelta(seconds=n) for a whole n leaves the microseconds of the clock in
\* the expiry that refresh assigns.
au_refresh_at(c, reply, t, us) ==
  LET r == au_refresh(c, reply, t)
  IN  IF r.outcome = "ok"
      THEN [r EXCEPT !.obj = [r.obj EXCEPT !.expiry_micro = us]]
      ELSE r

\* texts of datetimes, as sequences of their parts
Num(n) == [k |-> "num", v |-> n]
Dot == [k |-> "dot", v |-> 0]
Zed == [k |-> "Z", v |-> 0]

\* datetime.isoformat(): the fraction is written when microsecond is not 0
isoformat(sec, us) ==
  IF us = 0 THEN <<Num(sec)>> ELSE <<Num(sec), Dot, Num(us)>>

\* text.rstrip("Z")
RECURSIVE rstripZ(_)
rstripZ(text) ==
  IF text # <<>> /\ text[Len(text)] = Zed
  THEN rstripZ(SubSeq(text, 1, Len(text) - 1))
  ELSE text

\* text.split(".")[0]
BeforeDot(text) ==
  LET dots == {k \in DOMAIN text : text[k] = Dot}
  IN  IF dots = {} THEN text
      ELSE SubSeq(text, 1, (CHOOSE k \in dots : \A j \in dots : k <= j) - 1)

\* datetime.strptime(text, "%Y-%m-%dT%H:%M:%S")
strptime(text) ==
  IF Len(text) = 1 /\ text[1].k = "num"
  THEN [outcome |-> "ok", sec |-> text[1].v]
  ELSE [outcome |-> "ValueError", sec |-> NoExpiry]

AuFields ==
  {"audience", "refresh_token", "token_url", "token_info_url", "client_id",
   "client_secret", "token", "expiry", "revoke_url", "quota_project_id"}

\* arguments without the token and its expiry
au_constructor_args_mut(c) ==
  [c EXCEPT !.token = None, !.expiry = NoExpiry, !.expiry_micro = 0]

\* constructor_args(): the ten arguments of the constructor from the fields
au_constructor_args(c) ==
  [audience |-> c.audience, refresh_token |-> c.refresh_token,
   token_url |-> c.token_url, token_info_url |-> c.token_info_url,
   client_id |-> c.client_id, client_secret |-> c.client_secret,
   token |-> c.token, expiry |-> c.expiry, expiry_micro |-> c.expiry_micro,
   revoke_url |-> c.revoke_url, quota_project_id |-> c.quota_project_id]

\* Credentials.__init__ of the authorized-user credential
au_init(kw) ==
  [audience |-> kw.audience, refresh_token |-> kw.refresh_token,
   token_url |-> kw.token_url, token_info_url |-> kw.token_info_url,
   client_id |-> kw.client_id, client_secret |-> kw.client_secret,
   token |-> kw.token, expiry |-> kw.expiry, expiry_micro |-> kw.expiry_micro,
   revoke_url |-> kw.revoke_url, quota_project_id |-> kw.quota_project_id]

\* the keys of constructor_args() whose value is not None
AuKeysSet(c) ==
  {k \in AuFields :
     IF k = "expiry" THEN c.expiry # NoExpiry ELSE c[k] # None}

\* an info without the token
au_info_mut(c) ==
  LET a == au_constructor_args(c)
  IN  [k \in (AuKeysSet(a) \ {"token"}) \cup {"type"} |->
         IF k = "type" THEN "external_account_authorized_user"
         ELSE IF k = "expiry" THEN isoformat(a.expiry, a.expiry_micro) \o <<Zed>>
         ELSE a[k]]

\* Credentials.info: constructor_args() with the type, the expiry as
\* isoformat() + "Z", without the keys whose value is None
au_info(c) ==
  LET a == au_constructor_args(c)
  IN  [k \in AuKeysSet(a) \cup {"type"} |->
         IF k = "type" THEN "external_account_authorized_user"
         ELSE IF k = "expiry" THEN isoformat(a.expiry, a.expiry_micro) \o <<Zed>>
         ELSE a[k]]

\* Credentials.from_info: info.get for the ten arguments, the expiry parsed
\* from its text before the first "." with trailing "Z" removed
au_from_info(inf) ==
  LET get(k) == IF k \in DOMAIN inf THEN inf[k] ELSE None
      expiry == IF "expiry" \in DOMAIN inf
                THEN strptime(BeforeDot(rstripZ(inf["expiry"])))
                ELSE [outcome |-> "ok", sec |-> NoExpiry]
  IN  IF expiry.outcome # "ok"
      THEN [outcome |-> expiry.outcome, obj |-> None]
      ELSE [outcome |-> "ok",
            obj |-> au_init(
              [audience |-> get("audience"), refresh_token |-> get("refresh_token"),
               token_url |-> get("token_url"), token_info_url |-> get("token_info_url"),
               client_id |-> get("client_id"), client_secret |-> get("client_secret"),
               token |-> get("token"), expiry |-> expiry.sec, expiry_micro |-> 0,
               revoke_url |-> get("revoke_url"),
               quota_project_id |-> get("quota_project_id")])]

\* with_quota_project: constructor_args(), updated, given to the constructor
au_with_quota_project(c, quota_project_id) ==
  au_init([au_constructor_args(c) EXCEPT !.quota_project_id = quota_project_id])

\* with_token_uri
au_with_token_uri(c, token_uri) ==
  au_init([au_constructor_args(c) EXCEPT !.token_url = token_uri])

\* ------------------------------------------------------------------------
\* Inputs of the operations
\* ------------------------------------------------------------------------

Audiences == {AudWorkforce, AudWorkload}

TokenUrls == {UrlSts, UrlStsHttp}

DerivedTokenUrls == {UrlStsRegional, UrlStsEvil}

ImpersonationUrls == {UrlNone, UrlEmpty, UrlIam, UrlIamEvil, UrlIamNoEmail}

UserProjects == {None, "", "proj"}

\* the remaining optional arguments, all absent or all given
AuxNone ==
  [client_id |-> None, client_secret |-> None, quota_project_id |-> None,
   scopes |-> NoneList, default_scopes |-> NoneList,
   service_account_impersonation_options |-> NoOptions]

AuxFull ==
  [client_id |-> "cid", client_secret |-> "sec", quota_project_id |-> "q0",
   scopes |-> List(<<"s1">>), default_scopes |-> List(<<"d1">>),
   service_account_impersonation_options |-> [token_lifetime_seconds |-> 1800]]

AuxArgs == {AuxNone, AuxFull}

\* class, credential_source and interactive
ClassSources ==
  { [cls |-> "identity_pool", src |-> SrcFile, interactive |-> FALSE],
    [cls |-> "identity_pool", src |-> SrcNotMapping, interactive |-> FALSE],
    [cls |-> "pluggable", src |-> SrcExecOut, interactive |-> FALSE],
    [cls |-> "pluggable", src |-> SrcExecOut, interactive |-> TRUE],
    [cls |-> "pluggable", src |-> SrcFile, interactive |-> FALSE] }

Args(aud, tu, iu, up, aux, cs) ==
  [audience |-> aud,
   subject_token_type |-> TokenTypeJwt,
   token_url |-> tu,
   credential_source |-> cs.src,
   service_account_impersonation_url |-> iu,
   service_account_impersonation_options |-> aux.service_account_impersonation_options,
   client_id |-> aux.client_id,
   client_secret |-> aux.client_secret,
   quota_project_id |-> aux.quota_project_id,
   scopes |-> aux.scopes,
   default_scopes |-> aux.default_scopes,
   workforce_pool_user_project |-> up,
   interactive |-> cs.interactive]

\* the responses of an executable
RespOk(exp) ==
  [version |-> 1, success |-> TRUE, token_type |-> TokenTypeJwt,
   id_token |-> "J", expiration_time |-> exp]

RespOkNoExp ==
  [version |-> 1, success |-> TRUE, token_type |-> TokenTypeJwt, id_token |-> "J"]

RespSaml(exp) ==
  [version |-> 0, success |-> TRUE, token_type |-> TokenTypeSaml2,
   saml_response |-> "S", expiration_time |-> exp]

RespV2(exp) ==
  [version |-> 2, success |-> TRUE, token_type |-> TokenTypeJwt,
   id_token |-> "J", expiration_time |-> exp]

RespFail == [version |-> 1, success |-> FALSE, code |-> "401", message |-> "bad auth"]

RespNoVersion(exp) ==
  [success |-> TRUE, token_type |-> TokenTypeJwt, id_token |-> "J",
   expiration_time |-> exp]

RespBadType(exp) ==
  [version |-> 1, success |-> TRUE, token_type |-> "urn:other",
   id_token |-> "J", expiration_time |-> exp]

\* responses that lack success or token_type
RespNoSuccess(v, exp) ==
  [version |-> v, token_type |-> TokenTypeJwt, id_token |-> "J",
   expiration_time |-> exp]

RespNoType(exp) ==
  [version |-> 1, success |-> TRUE, id_token |-> "J", expiration_time |-> exp]

ExpirationTimes == {1, 2}

Responses ==
  {RespOkNoExp, RespFail}
    \cup {RespOk(e) : e \in ExpirationTimes}
    \cup {RespSaml(e) : e \in ExpirationTimes}
    \cup {RespV2(2), RespNoVersion(2), RespBadType(2)}
    \cup {RespNoSuccess(1, 2), RespNoSuccess(2, 2)}
    \cup {RespNoType(e) : e \in ExpirationTimes}

OutputFiles == {TextMissing, TextGarbage} \cup {TextJson(r) : r \in Responses}

\* behaviours of the executable: exit code, stdout, the output file it
\* leaves, and how long it runs
Executables ==
  { [returncode |-> 0, stdout |-> TextJson(RespOk(MaxTime)),
     file_after |-> TextJson(RespOk(MaxTime)), duration_millis |-> 1000],
    [returncode |-> 2, stdout |-> TextGarbage,
     file_after |-> TextMissing, duration_millis |-> 1000],
    [returncode |-> 0, stdout |-> TextGarbage,
     file_after |-> TextMissing, duration_millis |-> 2000000] }

AllowValues == {None, "0", "1"}

\* what the token endpoint answers
StsOk(data) == [kind |-> "ok", data |-> data]

StsData ==
  { [access_token |-> "AT1", expires_in |-> 1],
    [access_token |-> "AT2", expires_in |-> 2, refresh_token |-> "RT2"],
    [access_token |-> "AT1", expires_in |-> 2, refresh_token |-> "RT1"],
    [access_token |-> "AT2"],
    [access_token |-> "AT2", refresh_token |-> "RT2"],
    [expires_in |-> 1] }

StsReplies ==
  {[kind |-> "transport", data |-> NoData], [kind |-> "error", data |-> NoData]}
    \cup {StsOk(d) : d \in StsData}

\* what the IAM-credentials endpoint answers
IamReplies ==
  { [kind |-> "ok", accessToken |-> "I-AT", expireTime |-> MaxTime + 2],
    [kind |-> "error", accessToken |-> None, expireTime |-> NoExpiry] }

\* the environments of a refresh of an external-account credential
RefreshEnvs ==
  { [allow |-> al, file |-> f, exe |-> x, time |-> t, sts |-> st, iam |-> ia] :
      al \in {None, "1"},
      f \in {TextMissing, TextJson(RespOk(MaxTime))},
      x \in {xx \in Executables : xx.returncode = 0 /\ xx.duration_millis = 1000},
      t \in {now},
      st \in {StsOk([access_token |-> "AT1", expires_in |-> 1]),
              [kind |-> "error", data |-> NoData]},
      ia \in {r \in IamReplies : r.kind = "ok"} }

\* the environments of a call of the executable supplier
ExecEnvs ==
  { [allow |-> al, file |-> f, exe |-> x, time |-> t] :
      al \in AllowValues, f \in OutputFiles, x \in Executables, t \in {now} }

\* ------------------------------------------------------------------------
\* State machine.  creds is the heap of external-account credential
\* objects, aus the heap of authorized-user credentials, now the clock, last
\* the record of the latest call (operation, target, arguments, heap before
\* the call, outcome, I/O events of the call), expectRT the refresh token
\* each authorized-user credential is expected to send next.
\* ------------------------------------------------------------------------

NoCall == [op |-> "none", outcome |-> "ok"]

\* the workers that share one credential
Workers == 1 .. NumWorkers

\* calls holds the refresh calls in progress: per worker the statement it is
\* at (pc), the clock value it read (t0) and the response it received
\* (data); written collects the (token, expiry) pairs that the initial state
\* or one refresh call stands for
NoCalls ==
  [pc |-> [w \in Workers |-> "idle"],
   t0 |-> [w \in Workers |-> 0],
   data |-> [w \in Workers |-> NoData],
   written |-> {}]

Tick ==
  /\ now < MaxTime
  /\ now' = now + 1
  /\ UNCHANGED <<creds, aus, last, expectRT, calls>>

\* the objects a call created are stored when the heap has room for them
Store(op, target, a, r, events) ==
  /\ Len(creds) + Len(r.objs) <= MaxCreds
  /\ creds' = creds \o r.objs
  /\ last' = [op |-> op, outcome |-> r.outcome, target |-> target, a |-> a,
              pre |-> creds, events |-> events, made |-> Len(r.objs)]
  /\ UNCHANGED <<aus, now, expectRT, calls>>

\* cls(audience, subject_token_type, token_url, credential_source, ...)
ConstructCredentials ==
  /\ last = NoCall
  /\ \E aud \in Audiences, tu \in TokenUrls, iu \in ImpersonationUrls,
        up \in UserProjects, aux \in AuxArgs, cs \in ClassSources :
       LET a == Args(aud, tu, iu, up, aux, cs)
       IN  Store("construct", 0, [cls |-> cs.cls, args |-> a],
                 Construct(cs.cls, a, Len(creds)), <<>>)

\* the keys of the dictionary an info carries: those with a value
InfoKeys(a) ==
  {"audience", "subject_token_type", "credential_source"}
    \cup (IF a.token_url.text # "None" THEN {"token_url"} ELSE {})
    \cup (IF a.service_account_impersonation_url.text # "None"
          THEN {"service_account_impersonation_url"} ELSE {})
    \cup (IF a.service_account_impersonation_options # NoOptions
          THEN {"service_account_impersonation"} ELSE {})
    \cup (IF a.client_id # None THEN {"client_id"} ELSE {})
    \cup (IF a.client_secret # None THEN {"client_secret"} ELSE {})
    \cup (IF a.quota_project_id # None THEN {"quota_project_id"} ELSE {})
    \cup (IF a.workforce_pool_user_project # None
          THEN {"workforce_pool_user_project"} ELSE {})

InfoOf(a) ==
  [k \in InfoKeys(a) |->
     IF k = "service_account_impersonation"
     THEN a.service_account_impersonation_options ELSE a[k]]

\* an info property that leaves out quota_project_id
info_mut(c) ==
  [k \in (InfoKeys(c) \ {"quota_project_id"}) \cup {"type"} |->
     IF k = "type" THEN "external_account" ELSE InfoOf(c)[k]]

\* Credentials.info: the type tag and the configuration fields, those with
\* the value None left out ({} for the impersonation options counts as None)
info(c) ==
  [k \in InfoKeys(c) \cup {"type"} |->
     IF k = "type" THEN "external_account" ELSE InfoOf(c)[k]]

\* cls.from_info(info)
FromInfo ==
  /\ last = NoCall
  /\ \E aud \in Audiences, tu \in TokenUrls, iu \in ImpersonationUrls,
        up \in UserProjects, aux \in AuxArgs,
        cs \in {x \in ClassSources : ~x.interactive} :
       LET a == Args(aud, tu, iu, up, aux, cs)
       IN  Store("from_info", 0, [cls |-> cs.cls, args |-> a],
                 from_info(cs.cls, InfoKeys(a), InfoOf(a), Len(creds)), <<>>)

\* cls.from_file(filename): the file is read and parsed, then from_info
FromFile ==
  /\ last = NoCall
  /\ \/ \E err \in {"FileNotFoundError", "JSONDecodeError"} :
          Store("from_file", 0, [cls |-> "pluggable", args |-> NoData],
                [outcome |-> err, objs |-> <<>>], <<"read_json_file">>)
     \/ \E aud \in Audiences, tu \in TokenUrls, iu \in ImpersonationUrls,
           up \in UserProjects, aux \in AuxArgs,
           cs \in {x \in ClassSources : ~x.interactive} :
          LET a == Args(aud, tu, iu, up, aux, cs)
          IN  Store("from_file", 0, [cls |-> cs.cls, args |-> a],
                    from_info(cs.cls, InfoKeys(a), InfoOf(a), Len(creds)),
                    <<"read_json_file">>)

ScopeLists == {NoneList, List(<<"s2">>)}

WithScopes ==
  \E i \in DOMAIN creds, sc \in ScopeLists, dsc \in ScopeLists :
    Store("with_scopes", i, [scopes |-> sc, default_scopes |-> dsc],
          with_scopes(creds[i], sc, dsc, Len(creds)), <<>>)

WithQuotaProject ==
  \E i \in DOMAIN creds, q \in {"q1"} :
    Store("with_quota_project", i, [quota_project_id |-> q],
          with_quota_project(creds[i], q, Len(creds)), <<>>)

WithTokenUri ==
  \E i \in DOMAIN creds, u \in DerivedTokenUrls :
    Store("with_token_uri", i, [token_uri |-> u],
          with_token_uri(creds[i], u, Len(creds)), <<>>)

\* c.refresh(request)
Refresh ==
  \E i \in DOMAIN creds, E \in RefreshEnvs :
    LET r == refresh(creds, i, E, now)
    IN  /\ creds' = r.heap
        /\ last' = [op |-> "refresh", outcome |-> r.outcome, target |-> i,
                    a |-> E, pre |-> creds, events |-> r.events, made |-> 0]
        /\ UNCHANGED <<aus, now, expectRT, calls>>

InitEA ==
  /\ creds = <<>>
  /\ aus = <<>>
  /\ now = 0
  /\ last = NoCall
  /\ expectRT = <<>>
  /\ calls = NoCalls

NextEA ==
  \/ ConstructCredentials
  \/ FromInfo
  \/ FromFile
  \/ WithScopes
  \/ WithQuotaProject
  \/ WithTokenUri
  \/ Refresh

\* construction, derivation and refresh of external-account credentials
Spec == InitEA /\ [][NextEA]_vars

\* ------------------------------------------------------------------------
\* Refresh of authorized-user credentials
\* ------------------------------------------------------------------------

\* the microseconds the clock may show
ClockMicros == {0, 250000}

AuRefresh ==
  \E i \in DOMAIN aus, reply \in StsReplies, us \in ClockMicros :
    LET r == au_refresh_at(aus[i], reply, now, us)
    IN  /\ aus' = [aus EXCEPT ![i] = r.obj]
        /\ last' = [op |-> "au_refresh", outcome |-> r.outcome, target |-> i,
                    a |-> reply, pre |-> aus, events |-> r.events,
                    sent |-> r.sent, expected |-> expectRT[i], t |-> now,
                    request |-> au_request(aus[i])]
        /\ expectRT' = [expectRT EXCEPT ![i] =
                          IF r.outcome = "ok" /\ Has(reply.data, "refresh_token")
                          THEN reply.data.refresh_token ELSE @]
        /\ UNCHANGED <<creds, now, calls>>

InitAU ==
  /\ creds = <<>>
  /\ aus \in { <<AuthorizedUser("RT0", None, NoExpiry)>>,
               <<AuthorizedUser("RT0", "AT0", 2)>> }
  /\ now = 0
  /\ last = NoCall
  /\ expectRT = <<"RT0">>
  /\ calls = NoCalls

NextAU ==
  \/ AuRefresh
  \/ Tick

SpecAU == InitAU /\ [][NextAU]_vars

\* from_info(c.info), with_quota_project and with_token_uri leave c as it is
\* and return a credential, which last holds
AuInfoRoundTrip ==
  \E i \in DOMAIN aus :
    LET inf == au_info(aus[i])
        r == au_from_info(inf)
    IN  /\ last' = [op |-> "au_info_round_trip", outcome |-> r.outcome,
                    target |-> i, a |-> inf, pre |-> aus, result |-> r.obj]
        /\ UNCHANGED <<creds, aus, now, expectRT, calls>>

AuWithQuotaProject ==
  \E i \in DOMAIN aus, q \in {"q1", "q2"} :
    /\ last' = [op |-> "au_with_quota_project", outcome |-> "ok", target |-> i,
                a |-> q, pre |-> aus, result |-> au_with_quota_project(aus[i], q)]
    /\ UNCHANGED <<creds, aus, now, expectRT, calls>>

AuWithTokenUri ==
  \E i \in DOMAIN aus, u \in {"https://google.com"} :
    /\ last' = [op |-> "au_with_token_uri", outcome |-> "ok", target |-> i,
                a |-> u, pre |-> aus, result |-> au_with_token_uri(aus[i], u)]
    /\ UNCHANGED <<creds, aus, now, expectRT, calls>>

NextAuDerive ==
  \/ AuRefresh
  \/ Tick
  \/ AuInfoRoundTrip
  \/ AuWithQuotaProject
  \/ AuWithTokenUri

SpecAuDerive == InitAU /\ [][NextAuDerive]_vars

\* ------------------------------------------------------------------------
\* Calls of the executable supplier.  retrieve_subject_token and revoke
\* leave the credential as it is, so a behaviour constructs a credential,
\* lets time pass and makes one call.
\* ------------------------------------------------------------------------

ExecClassSources ==
  { [cls |-> "pluggable", src |-> s, interactive |-> b] :
      s \in {SrcExec, SrcExecOut}, b \in BOOLEAN }

\* the heaps a successful construction of a pluggable credential leaves
ExecHeaps ==
  { r.objs : r \in { rr \in { Construct("pluggable",
                                        Args(aud, UrlSts, iu, None, AuxNone, cs), 0) :
                                aud \in Audiences, iu \in {UrlNone, UrlIam},
                                cs \in ExecClassSources } :
                     rr.outcome = "ok" } }

RetrieveSubjectToken ==
  \E i \in DOMAIN creds, E \in ExecEnvs :
    LET r == retrieve_subject_token(creds[i], E)
    IN  /\ last = NoCall
        /\ last' = [op |-> "retrieve_subject_token", outcome |-> r.outcome,
                    target |-> i, a |-> E, pre |-> creds, events |-> r.events,
                    value |-> r.value]
        /\ UNCHANGED <<creds, aus, now, expectRT, calls>>

Revoke ==
  \E i \in DOMAIN creds, E \in ExecEnvs :
    LET r == revoke(creds[i], E)
    IN  /\ last = NoCall
        /\ last' = [op |-> "revoke", outcome |-> r.outcome,
                    target |-> i, a |-> E, pre |-> creds, events |-> r.events,
                    value |-> r.value]
        /\ UNCHANGED <<creds, aus, now, expectRT, calls>>

InitExec ==
  /\ creds \in ExecHeaps
  /\ aus = <<>>
  /\ now = 0
  /\ last = NoCall
  /\ expectRT = <<>>
  /\ calls = NoCalls

NextExec ==
  \/ RetrieveSubjectToken
  \/ Revoke
  \/ Tick

SpecExec == InitExec /\ [][NextExec]_vars

\* ------------------------------------------------------------------------
\* Calls of is_valid_url, a static method without state: one call per
\* behaviour, on a pattern set and a URL
\* ------------------------------------------------------------------------

UrlHosts ==
  { <<>>,
    << <<"sts">> >> \o GoogleApis,
    << <<"STS">> >> \o GoogleApis,
    << <<"us", "-", "east1", "-", "sts">> >> \o GoogleApis,
    << <<"sts">>, <<"us">> >> \o GoogleApis,
    << <<"sts", "-", "us">>, <<"p">> >> \o GoogleApis,
    << <<"sts">> >> \o GoogleApis \o << <<"evil">>, <<"com">> >>,
    << <<"iamcredentials">> >> \o GoogleApis,
    << <<"us">>, <<"iamcredentials">> >> \o GoogleApis,
    << <<"iamcredentials">>, <<"evil">>, <<"com">> >> }

UrlInputs ==
  {UrlNone, UrlEmpty}
    \cup { [text |-> "str", ws |-> w, edge |-> e, parses |-> p,
            scheme |-> sc, host |-> h, last |-> <<"token">>] :
            w \in BOOLEAN, e \in {"none", "leading", "trailing"}, p \in BOOLEAN,
            sc \in {"https", "http", ""}, h \in UrlHosts }

IsValidUrl ==
  /\ last = NoCall
  /\ \E svc \in {"sts", "iamcredentials"}, u \in UrlInputs :
       last' = [op |-> "is_valid_url", outcome |-> "ok",
                a |-> [svc |-> svc, url |-> u],
                value |-> is_valid_url(HostPatterns(svc), u)]
  /\ UNCHANGED <<creds, aus, now, expectRT, calls>>

InitUrl ==
  /\ creds = <<>>
  /\ aus = <<>>
  /\ now = 0
  /\ last = NoCall
  /\ expectRT = <<>>
  /\ calls = NoCalls

NextUrl == IsValidUrl

SpecUrl == InitUrl /\ [][NextUrl]_vars

\* ------------------------------------------------------------------------
\* Construction of identity-pool credentials from every shape of
\* credential_source
\* ------------------------------------------------------------------------

IdpSources ==
  {SrcNotMapping}
    \cup { [SrcBlank EXCEPT !.file = f, !.url = u, !.environment_id = e,
                            !.format_type = ft, !.subject_token_field_name = fn] :
            f \in {None, "", "/tmp/t"}, u \in {None, "", "http://idp/t"},
            e \in BOOLEAN, ft \in {None, "text", "json", "xml"},
            fn \in {None, "tok"} }

ConstructIdentityPool ==
  /\ last = NoCall
  /\ \E aud \in Audiences, tu \in TokenUrls,
        iu \in {UrlNone, UrlIam, UrlIamNoEmail}, src \in IdpSources :
       LET a == Args(aud, tu, iu, None, AuxNone,
                     [cls |-> "identity_pool", src |-> src, interactive |-> FALSE])
       IN  Store("construct", 0, [cls |-> "identity_pool", args |-> a],
                 Construct("identity_pool", a, Len(creds)), <<>>)

NextIdp == ConstructIdentityPool

\* ------------------------------------------------------------------------
\* One authorized-user credential shared by workers.  refresh
\* (external_account_authorized_user.py:163-173) takes no lock, so each of
\* its statements is a step of its own; a reader takes token and expiry in
\* one step.
\* ------------------------------------------------------------------------

ConcReplies ==
  { [kind |-> "error", data |-> NoData],
    StsOk([access_token |-> "AT1", expires_in |-> 1]),
    StsOk([access_token |-> "AT2", expires_in |-> 2, refresh_token |-> "RT2"]),
    StsOk([access_token |-> "AT2"]) }

\* worker w leaves refresh, by return or by an exception
Leave(w) ==
  [calls EXCEPT !.pc[w] = "idle", !.t0[w] = 0, !.data[w] = NoData]

\* now = _helpers.utcnow()
BeginRefresh(w) ==
  /\ calls.pc[w] = "idle"
  /\ calls' = [calls EXCEPT !.pc[w] = "utcnow", !.t0[w] = now]
  /\ UNCHANGED <<creds, aus, now, last, expectRT>>

\* response_data = self._make_sts_request(request)
ReceiveResponse(w) ==
  /\ calls.pc[w] = "utcnow"
  /\ \E reply \in ConcReplies :
       LET r == sts_request(reply)
       IN  calls' = IF r.outcome # "ok" THEN Leave(w)
                    ELSE [calls EXCEPT !.pc[w] = "response", !.data[w] = r.data]
  /\ UNCHANGED <<creds, aus, now, last, expectRT>>

\* self.token = response_data.get("access_token")
WriteToken(w) ==
  /\ calls.pc[w] = "response"
  /\ LET d == calls.data[w]
         tok == Get(d, "access_token", None)
     IN  /\ aus' = [aus EXCEPT ![1].token = tok]
         /\ calls' = [calls EXCEPT
                        !.pc[w] = "token",
                        !.written = @ \cup (IF Has(d, "expires_in")
                                            THEN {<<tok, calls.t0[w] + d.expires_in>>}
                                            ELSE {})]
  /\ UNCHANGED <<creds, now, last, expectRT>>

\* lifetime = datetime.timedelta(seconds=response_data.get("expires_in"))
\* self.expiry = now + lifetime
WriteExpiry(w) ==
  /\ calls.pc[w] = "token"
  /\ LET d == calls.data[w]
     IN  IF ~Has(d, "expires_in")
         THEN calls' = Leave(w) /\ UNCHANGED aus
         ELSE /\ aus' = [aus EXCEPT ![1].expiry = calls.t0[w] + d.expires_in]
              /\ calls' = [calls EXCEPT !.pc[w] = "expiry"]
  /\ UNCHANGED <<creds, now, last, expectRT>>

\* if "refresh_token" in response_data: self._refresh_token = ...
WriteRefreshToken(w) ==
  /\ calls.pc[w] = "expiry"
  /\ LET d == calls.data[w]
     IN  aus' = IF Has(d, "refresh_token")
                THEN [aus EXCEPT ![1].refresh_token = d.refresh_token]
                ELSE aus
  /\ calls' = Leave(w)
  /\ UNCHANGED <<creds, now, last, expectRT>>

\* a reader takes the pair (token, expiry) of the credential
ReadTokenAndExpiry ==
  /\ last' = [op |-> "read", outcome |-> "ok",
              token |-> aus[1].token, expiry |-> aus[1].expiry]
  /\ UNCHANGED <<creds, aus, now, expectRT, calls>>

InitConc ==
  /\ creds = <<>>
  /\ aus = <<AuthorizedUser("RT0", None, NoExpiry)>>
  /\ now = 0
  /\ last = NoCall
  /\ expectRT = <<"RT0">>
  /\ calls = [NoCalls EXCEPT !.written = {<<None, NoExpiry>>}]

NextConc ==
  \/ \E w \in Workers : BeginRefresh(w)
  \/ \E w \in Workers : ReceiveResponse(w)
  \/ \E w \in Workers : WriteToken(w)
  \/ \E w \in Workers : WriteExpiry(w)
  \/ \E w \in Workers : WriteRefreshToken(w)
  \/ ReadTokenAndExpiry

SpecConc == InitConc /\ [][NextConc]_vars

\* ------------------------------------------------------------------------
\* type(c).from_info(c.info) on constructed and derived credentials
\* ------------------------------------------------------------------------

InfoRoundTrip ==
  \E i \in DOMAIN creds :
    LET inf == info(creds[i])
    IN  Store("info_round_trip", i, [info |-> inf],
              from_info(creds[i].cls, DOMAIN inf, inf, Len(creds)), <<>>)

NextInfo ==
  \/ ConstructCredentials
  \/ ConstructIdentityPool
  \/ WithTokenUri
  \/ InfoRoundTrip

SpecInfo == InitEA /\ [][NextInfo]_vars

SpecIdp == InitEA /\ [][NextIdp]_vars

\* ------------------------------------------------------------------------
\* Construction of pluggable credentials from executable sources with and
\* without timeouts, output file and environment_id
\* ------------------------------------------------------------------------

TimeoutValues == {NoneInt, -1, 0, 4999, 5000, 120000, 120001}

InteractiveTimeoutValues == {NoneInt, 0, 299999, 300000, 1800000, 1800001}

PlugSources ==
  { [SrcExec EXCEPT !.timeout_millis = tm, !.interactive_timeout_millis = itm,
                    !.environment_id = e, !.output_file = out] :
      tm \in TimeoutValues, itm \in InteractiveTimeoutValues,
      e \in BOOLEAN, out \in {None, "/tmp/out"} }

ConstructPluggable ==
  /\ last = NoCall
  /\ \E aud \in Audiences, iu \in {UrlNone, UrlIam}, src \in PlugSources,
        b \in BOOLEAN :
       LET a == Args(aud, UrlSts, iu, None, AuxNone,
                     [cls |-> "pluggable", src |-> src, interactive |-> b])
       IN  Store("construct", 0, [cls |-> "pluggable", args |-> a],
                 Construct("pluggable", a, Len(creds)), <<>>)

NextPlug == ConstructPluggable

SpecPlug == InitEA /\ [][NextPlug]_vars

\* ------------------------------------------------------------------------
\* The requests of a refresh: behaviours that hold one external-account
\* credential (with its impersonation source when it has one) and one
\* authorized-user credential, and refresh them
\* ------------------------------------------------------------------------

\* the heaps a successful construction of an identity-pool credential with a
\* file source leaves
FileHeaps ==
  { r.objs : r \in { rr \in { Construct("identity_pool",
                                        Args(aud, UrlSts, iu, None, AuxNone,
                                             [cls |-> "identity_pool",
                                              src |-> [SrcBlank EXCEPT !.file = "/tmp/t"],
                                              interactive |-> FALSE]), 0) :
                                aud \in Audiences, iu \in {UrlNone, UrlIam} } :
                     rr.outcome = "ok" } }

InitReq ==
  /\ creds \in ExecHeaps \cup FileHeaps
  /\ aus = <<AuthorizedUser("RT0", None, NoExpiry)>>
  /\ now = 0
  /\ last = NoCall
  /\ expectRT = <<"RT0">>
  /\ calls = NoCalls

NextReq ==
  \/ Refresh
  \/ AuRefresh

SpecReq == InitReq /\ [][NextReq]_vars

\* ------------------------------------------------------------------------
\* Calls of get_project_id on one constructed credential
\* ------------------------------------------------------------------------

\* //iam.googleapis.com/projects
AudProjectsLast == <<"", "", "iam.googleapis.com", "projects">>

\* //iam.googleapis.com/projects//locations/global
AudProjectsEmpty ==
  <<"", "", "iam.googleapis.com", "projects", "", "locations", "global">>

ProjScopes ==
  { [scopes |-> NoneList, default_scopes |-> NoneList],
    [scopes |-> List(<<>>), default_scopes |-> List(<<"d1">>)],
    [scopes |-> List(<<"s1">>), default_scopes |-> NoneList],
    [scopes |-> NoneList, default_scopes |-> List(<<"d1">>)] }

\* the heaps that hold one successfully constructed credential
ProjHeaps ==
  { r.objs :
      r \in { rr \in { Construct(cs.cls,
                                  Args(aud, UrlSts, iu, up,
                                       [AuxNone EXCEPT !.scopes = sc.scopes,
                                                       !.default_scopes = sc.default_scopes],
                                       cs), 0) :
                          aud \in {AudWorkforce, AudWorkload, AudProjectsLast,
                                   AudProjectsEmpty},
                          iu \in {UrlNone, UrlIam}, up \in {None, "proj"},
                          sc \in ProjScopes,
                          cs \in {[cls |-> "pluggable", src |-> SrcExecOut,
                                   interactive |-> FALSE],
                                  [cls |-> "identity_pool", src |-> SrcFile,
                                   interactive |-> FALSE]} } :
               rr.outcome = "ok" } }

\* what the resource manager answers
CrmReplies ==
  { [status |-> 200, body |-> TextJson([projectId |-> "my-project"])],
    [status |-> 403, body |-> TextJson([error |-> "denied"])],
    [status |-> 500, body |-> TextGarbage] }

\* the environments of a get_project_id call
ProjEnvs ==
  { [allow |-> "1", file |-> f, exe |-> x, time |-> now, sts |-> st,
     iam |-> ia, crm |-> cr] :
      f \in {TextMissing, TextJson(RespOk(MaxTime))},
      x \in {xx \in Executables : xx.returncode = 0 /\ xx.duration_millis = 1000},
      st \in {StsOk([access_token |-> "AT1", expires_in |-> 2])},
      ia \in {r \in IamReplies : r.kind = "ok"},
      cr \in CrmReplies }

GetProjectId ==
  \E i \in DOMAIN creds, E \in ProjEnvs :
    LET r == get_project_id(creds, i, E, now)
    IN  /\ creds' = r.heap
        /\ last' = [op |-> "get_project_id", outcome |-> r.outcome, target |-> i,
                    a |-> E, pre |-> creds, events |-> r.events,
                    value |-> r.value, made |-> 0]
        /\ UNCHANGED <<aus, now, expectRT, calls>>

InitProj ==
  /\ creds \in ProjHeaps
  /\ aus = <<>>
  /\ now = 0
  /\ last = NoCall
  /\ expectRT = <<>>
  /\ calls = NoCalls

NextProj ==
  \/ GetProjectId
  \/ Tick

SpecProj == InitProj /\ [][NextProj]_vars

\* ------------------------------------------------------------------------
\* The four operations that work on a constructed credential: refresh,
\* get_project_id, retrieve_subject_token and revoke
\* ------------------------------------------------------------------------

InitOps ==
  /\ creds \in ProjHeaps \cup ExecHeaps
  /\ aus = <<>>
  /\ now = 0
  /\ last = NoCall
  /\ expectRT = <<>>
  /\ calls = NoCalls

NextOps ==
  \/ Refresh
  \/ GetProjectId
  \/ RetrieveSubjectToken
  \/ Revoke

SpecOps == InitOps /\ [][NextOps]_vars

\* ------------------------------------------------------------------------
\* Properties
\* ------------------------------------------------------------------------

ConstructOps == {"construct", "from_info", "from_file"}

DeriveOps == {"with_scopes", "with_quota_project", "with_token_uri"}

\* the credential the latest call was made on, as it was before the call
Target == last.pre[last.target]

\* the credential the latest call returned: the last object it created
Returned == creds[Len(creds)]

InEvents(e) == \E k \in DOMAIN last.events : last.events[k] = e

\* C1: a refresh of a credential without impersonation whose subject token
\* is retrieved and to which STS answers {access_token: a, expires_in: n}
\* while the clock reads T0 leaves token = a and expiry = T0 + n.
C1_RefreshStoresTokenAndExpiry ==
  ( /\ last.op = "refresh"
    /\ ~Target.impersonated_credentials.set
    /\ retrieve_subject_token(Target, last.a).outcome = "ok"
    /\ last.a.sts.kind = "ok"
    /\ Has(last.a.sts.data, "access_token")
    /\ Has(last.a.sts.data, "expires_in") )
  => /\ last.outcome = "ok"
     /\ creds[last.target].token = last.a.sts.data.access_token
     /\ creds[last.target].expiry = last.a.time + last.a.sts.data.expires_in

\* C2: a refresh that ends with an error leaves token and expiry, and the
\* refresh token of an authorized-user credential, as they were before the
\* call.
C2_FailedRefreshKeepsState ==
  /\ (last.op = "refresh" /\ last.outcome # "ok")
       => /\ creds[last.target].token = Target.token
          /\ creds[last.target].expiry = Target.expiry
  /\ (last.op = "au_refresh" /\ last.outcome # "ok")
       => /\ aus[last.target].token = Target.token
          /\ aus[last.target].expiry = Target.expiry
          /\ aus[last.target].refresh_token = Target.refresh_token

\* C3: the token of a credential with impersonation is unset or is the
\* token of its impersonation client, with that client's expiry; it is never
\* an access token of an STS response.
C3_TokenFromImpersonation ==
  \A i \in DOMAIN creds :
    creds[i].impersonated_credentials.set
      => /\ \/ creds[i].token = None /\ creds[i].expiry = NoExpiry
            \/ /\ creds[i].token = creds[i].impersonated_credentials.token
               /\ creds[i].expiry = creds[i].impersonated_credentials.expiry
         /\ creds[i].token \notin {"AT1", "AT2"}

\* a refresh was called on a credential with impersonation whose supplier
\* delivers a subject token
C3_Witness ==
  /\ last.op = "refresh"
  /\ Target.impersonated_credentials.set
  /\ retrieve_subject_token(last.pre[Target.impersonated_credentials.source],
                            last.a).outcome = "ok"
  /\ last.a.sts.kind = "ok"

\* C4: every refresh request of an authorized-user credential carries the
\* initial refresh token or the one of the latest earlier successful
\* refresh whose response had one; a successful refresh stores the
\* refresh_token of its response when it has one and keeps the stored one
\* otherwise.
C4_RefreshTokenRotation ==
  last.op = "au_refresh"
    => /\ last.sent = last.expected
       /\ last.outcome = "ok"
            => aus[last.target].refresh_token =
                 IF Has(last.a.data, "refresh_token")
                 THEN last.a.data.refresh_token
                 ELSE Target.refresh_token

\* a request carried the rotated token RT2 and its response rotated again
C4_Witness ==
  /\ last.op = "au_refresh"
  /\ last.outcome = "ok"
  /\ last.sent = "RT2"
  /\ Has(last.a.data, "refresh_token")
  /\ aus[last.target].refresh_token = "RT1"

\* C5: with_scopes, with_quota_project and with_token_uri succeed and return
\* a credential without token and expiry, and a later refresh of one
\* credential leaves token, expiry and project_id of the others unchanged.
C5_DerivationsAreFresh ==
  /\ ( \/ last.op \in {"with_scopes", "with_quota_project"}
       \/ last.op = "with_token_uri"
            /\ is_valid_url(TOKEN_URL_PATTERNS, last.a.token_uri) )
       => /\ last.outcome = "ok"
          /\ last.made >= 1
          /\ Returned.token = None
          /\ Returned.expiry = NoExpiry
  /\ last.op = "refresh"
       => \A j \in DOMAIN creds :
            ( /\ j # last.target
              /\ ~( Target.impersonated_credentials.set
                    /\ j = Target.impersonated_credentials.source ) )
              => /\ creds[j].token = last.pre[j].token
                 /\ creds[j].expiry = last.pre[j].expiry
                 /\ creds[j].project_id = last.pre[j].project_id

\* the configuration fields with_scopes and with_quota_project are to keep
SameConfig(c, d) ==
  /\ d.audience = c.audience
  /\ d.subject_token_type = c.subject_token_type
  /\ d.token_url = c.token_url
  /\ d.credential_source = c.credential_source
  /\ d.service_account_impersonation_url = c.service_account_impersonation_url
  /\ d.service_account_impersonation_options = c.service_account_impersonation_options
  /\ d.client_id = c.client_id
  /\ d.client_secret = c.client_secret
  /\ d.workforce_pool_user_project =
       IF is_workforce_pool(c.audience) THEN c.workforce_pool_user_project ELSE None

\* C6: with_scopes and with_quota_project return a credential with the
\* given scopes and default scopes (quota project) and with every other
\* configuration field of the original; workforce_pool_user_project is
\* carried over exactly for a workforce-pool audience.
C6_DerivationKeepsConfig ==
  /\ last.op = "with_scopes"
       => /\ last.outcome = "ok"
          /\ last.made >= 1
          /\ Returned.scopes = last.a.scopes
          /\ Returned.default_scopes = last.a.default_scopes
          /\ Returned.quota_project_id = Target.quota_project_id
          /\ SameConfig(Target, Returned)
  /\ last.op = "with_quota_project"
       => /\ last.outcome = "ok"
          /\ last.made >= 1
          /\ Returned.quota_project_id = last.a.quota_project_id
          /\ Returned.scopes = Target.scopes
          /\ Returned.default_scopes = Target.default_scopes
          /\ SameConfig(Target, Returned)

\* C7: when GOOGLE_EXTERNAL_ACCOUNT_ALLOW_EXECUTABLES is not "1",
\* retrieve_subject_token and revoke raise a configuration error without
\* reading the output file and without running a subprocess; a subprocess
\* is run only in a call in which the gate was open.
C7_ExecutableGate ==
  last.op \in {"retrieve_subject_token", "revoke"}
    => /\ last.a.allow # "1"
            => /\ last.outcome \in ConfigErrors
               /\ ~InEvents("read_output_file")
               /\ ~InEvents("subprocess.run")
               /\ ~InEvents("spawn")
       /\ (InEvents("subprocess.run") \/ InEvents("spawn")) => last.a.allow = "1"

\* the gate variable is "0" and the output file holds a token that is valid
C7_Witness ==
  /\ last.op = "retrieve_subject_token"
  /\ last.a.allow = "0"
  /\ Target.credential_source.output_file # None
  /\ last.a.file \in {TextJson(RespOk(e)) : e \in ExpirationTimes}
  /\ last.a.file.data.expiration_time > last.a.time
  /\ last.outcome = "ValueError"
  /\ last.events = <<>>

\* a response with version <= 1, success, a supported token type with its
\* token, and an expiration time
WellFormed(r) ==
  /\ Has(r, "version") /\ r.version <= 1
  /\ Has(r, "success") /\ r.success
  /\ Has(r, "expiration_time")
  /\ Has(r, "token_type")
  /\ \/ r.token_type \in {TokenTypeJwt, TokenTypeIdToken} /\ Has(r, "id_token")
     \/ r.token_type = TokenTypeSaml2 /\ Has(r, "saml_response")

TokenOf(r) == IF r.token_type = TokenTypeSaml2 THEN r.saml_response ELSE r.id_token

CachedCase ==
  /\ last.op = "retrieve_subject_token"
  /\ ~Target.interactive
  /\ last.a.allow = "1"
  /\ Target.credential_source.output_file # None
  /\ last.a.file.kind = "json"
  /\ WellFormed(last.a.file.data)
  /\ last.a.file.data.expiration_time > last.a.time

\* C8: in non-interactive mode with the gate open, an output file holding
\* a well-formed successful response that expires in the future makes
\* retrieve_subject_token return that response's token without running a
\* subprocess.
C8_CachedTokenFastPath ==
  CachedCase
    => /\ last.outcome = "ok"
       /\ last.value = TokenOf(last.a.file.data)
       /\ ~InEvents("subprocess.run")
       /\ ~InEvents("spawn")

\* the cached SAML response was returned at time 1
C8_Witness ==
  /\ CachedCase
  /\ last.a.time = 1
  /\ last.a.file.data.token_type = TokenTypeSaml2
  /\ last.value = "S"
  /\ last.events = <<"read_output_file">>

\* the latest call was a constructor, from_info or from_file call that got
\* as far as passing arguments to the constructor
Constructing ==
  /\ last.op \in ConstructOps
  /\ last.outcome \notin {"FileNotFoundError", "JSONDecodeError"}

\* C9 as stated: every credential with a workforce_pool_user_project other
\* than null has a workforce-pool audience, and the constructor and
\* from_info raise a configuration error when given such a project with
\* another audience.
C9_WorkforceGuardNonNull ==
  /\ \A i \in DOMAIN creds :
       creds[i].workforce_pool_user_project # None
         => is_workforce_pool(creds[i].audience)
  /\ ( /\ Constructing
       /\ last.a.args.workforce_pool_user_project # None
       /\ ~is_workforce_pool(last.a.args.audience) )
       => last.outcome \in ConfigErrors

\* C9, amended: every credential with a non-empty
\* workforce_pool_user_project has a workforce-pool audience (derivations
\* and impersonation sources included), and the constructor, from_info and
\* from_file fail when given a non-empty project with another audience:
\* with a configuration error, or with RefreshError when the impersonation
\* URL names no target principal.
C9_WorkforceGuard ==
  /\ \A i \in DOMAIN creds :
       Truthy(creds[i].workforce_pool_user_project)
         => is_workforce_pool(creds[i].audience)
  /\ ( /\ Constructing
       /\ Truthy(last.a.args.workforce_pool_user_project)
       /\ ~is_workforce_pool(last.a.args.audience) )
       => /\ last.outcome \in ConfigErrors \cup {"RefreshError"}
          /\ last.outcome = "RefreshError"
               => ~EmailTruthy(service_account_email(
                                 last.a.args.service_account_impersonation_url))

\* the constructor refused a user project on a workload audience after it
\* had built the impersonation source, which carries no user project
C9_Witness ==
  /\ last.op = "construct"
  /\ last.a.args.workforce_pool_user_project = "proj"
  /\ last.a.args.audience = AudWorkload
  /\ last.a.args.service_account_impersonation_url = UrlIam
  /\ last.outcome = "ValueError"
  /\ last.made = 1
  /\ creds[1].workforce_pool_user_project = None

\* the rules of the allow-list: a non-empty URL without inner whitespace,
\* scheme https, and a lower-cased host of one of the five shapes
AcceptedBy(svc, u) ==
  /\ u.text = "str"
  /\ ~u.ws
  /\ u.scheme = "https"
  /\ LET h == LowerHost(u.host)
         wild(l) == l # <<>> /\ \A j \in DOMAIN l : l[j] \notin {".", " ", "/", "\\"}
     IN  \/ h = << <<svc>>, <<"googleapis">>, <<"com">> >>
         \/ Len(h) = 4 /\ wild(h[1]) /\ h[2] = <<svc>>
              /\ h[3] = <<"googleapis">> /\ h[4] = <<"com">>
         \/ Len(h) = 4 /\ h[1] = <<svc>> /\ wild(h[2])
              /\ h[3] = <<"googleapis">> /\ h[4] = <<"com">>
         \/ Len(h) = 3 /\ Len(h[1]) >= 3
              /\ h[1][Len(h[1])] = svc /\ h[1][Len(h[1]) - 1] = "-"
              /\ wild(SubSeq(h[1], 1, Len(h[1]) - 2))
              /\ h[2] = <<"googleapis">> /\ h[3] = <<"com">>
         \/ Len(h) = 4 /\ Len(h[1]) >= 3
              /\ h[1][1] = svc /\ h[1][2] = "-"
              /\ wild(SubSeq(h[1], 3, Len(h[1])))
              /\ h[2] = <<"p">> /\ h[3] = <<"googleapis">> /\ h[4] = <<"com">>

C11_IsValidUrlSoundAndRejectsWhitespace ==
  last.op = "is_valid_url"
    => LET u == last.a.url
       IN  /\ last.outcome = "ok"
           /\ last.value
                => /\ u.scheme = "https"
                   /\ u.host # <<>>
                   /\ \E p \in HostPatterns(last.a.svc) : HostMatch(p, LowerHost(u.host))
           /\ (u.text # "str" \/ ~u.parses \/ u.ws \/ u.edge # "none")
                => ~last.value

\* the file and the url of the credential_source a constructor was given;
\* a credential_source that is no mapping has neither
GivenFile ==
  IF last.a.args.credential_source.is_mapping
  THEN last.a.args.credential_source.file ELSE None

GivenUrl ==
  IF last.a.args.credential_source.is_mapping
  THEN last.a.args.credential_source.url ELSE None

\* C12 as stated: the identity-pool constructor raises a configuration
\* error when credential_source has both a file and a url entry and when it
\* has neither; a constructed credential has exactly one of the two entries
\* and the supplier of that kind.
C12_SupplierExclusivityByPresence ==
  /\ (last.op = "construct" /\ GivenFile # None /\ GivenUrl # None)
       => last.outcome \in ConfigErrors
  /\ (last.op = "construct" /\ GivenFile = None /\ GivenUrl = None)
       => last.outcome \in ConfigErrors
  /\ \A i \in DOMAIN creds :
       LET src == creds[i].credential_source
       IN  /\ src.is_mapping
           /\ (src.file # None) # (src.url # None)
           /\ creds[i].supplier = IF src.file # None THEN "file" ELSE "url"

\* C12, amended: the identity-pool constructor raises a configuration error
\* when file and url are both non-empty and when neither is (a
\* credential_source that is no mapping included); a constructed credential
\* (an impersonation source included) has exactly one non-empty of the two
\* and the supplier of that kind.
C12_SupplierExclusivity ==
  /\ (last.op = "construct" /\ Truthy(GivenFile) /\ Truthy(GivenUrl))
       => last.outcome \in ConfigErrors /\ last.made = 0
  /\ (last.op = "construct" /\ ~Truthy(GivenFile) /\ ~Truthy(GivenUrl))
       => last.outcome \in ConfigErrors /\ last.made = 0
  /\ \A i \in DOMAIN creds :
       LET src == creds[i].credential_source
       IN  /\ src.is_mapping
           /\ Truthy(src.file) # Truthy(src.url)
           /\ creds[i].supplier = IF Truthy(src.file) THEN "file" ELSE "url"

\* both a file and a url were given together with an impersonation URL: the
\* constructor of the source credential raised and nothing was created
C12_Witness ==
  /\ last.op = "construct"
  /\ GivenFile = "/tmp/t" /\ GivenUrl = "http://idp/t"
  /\ last.a.args.service_account_impersonation_url = UrlIam
  /\ last.a.args.token_url = UrlSts
  /\ last.outcome = "MalformedError"
  /\ creds = <<>>

\* the configuration fields a round trip through info is to preserve
RoundTripFields ==
  {"audience", "subject_token_type", "token_url", "credential_source",
   "service_account_impersonation_url", "service_account_impersonation_options",
   "client_id", "client_secret", "quota_project_id", "workforce_pool_user_project"}

\* C13: for a constructed credential c, from_info(c.info) succeeds and
\* returns a credential equal to c in every configuration field but the
\* scopes; c.info has type "external_account" and no entry for a field
\* whose value is None.
C13_InfoRoundTrip ==
  last.op = "info_round_trip"
    => /\ last.outcome = "ok"
       /\ \A f \in RoundTripFields : Returned[f] = Target[f]
       /\ "type" \in DOMAIN last.a.info
       /\ last.a.info["type"] = "external_account"
       /\ Target.service_account_impersonation_url.text = "None"
            => "service_account_impersonation_url" \notin DOMAIN last.a.info
       /\ \A k \in {"client_id", "client_secret", "quota_project_id",
                     "workforce_pool_user_project"} :
            Target[k] = None => k \notin DOMAIN last.a.info

\* the round trip of a workforce credential with impersonation, client
\* authentication, quota project and user project created the copy and its
\* impersonation source
C13_Witness ==
  /\ last.op = "info_round_trip"
  /\ last.outcome = "ok"
  /\ Target.impersonated_credentials.set
  /\ Target.quota_project_id = "q0"
  /\ Target.workforce_pool_user_project = "proj"
  /\ last.made = 2
  /\ Returned.impersonated_credentials.set

\* C14: at most one refresh call is in progress on a shared credential at
\* any time, so the statements of two refresh calls are never interleaved.
C14_SingleFlightRefresh ==
  Cardinality({w \in Workers : calls.pc[w] # "idle"}) <= 1

\* C15: a reader never takes a (token, expiry) pair that is neither the
\* initial pair nor the pair of one refresh call.
C15_ReaderSeesOneRefresh ==
  last.op = "read" => <<last.token, last.expiry>> \in calls.written

\* the number of times event e is among the events of the latest call
CountEvents(e) ==
  Cardinality({k \in DOMAIN last.events : last.events[k] = e})

\* the object whose supplier a refresh of the target asks for the subject
\* token: the impersonation source when there is one
RetrievingObject ==
  IF Target.impersonated_credentials.set
  THEN last.pre[Target.impersonated_credentials.source]
  ELSE Target

\* C16: one refresh asks for the subject token at most once, sends at most
\* one request to STS and at most one to the IAM-credentials endpoint, the
\* latter only with impersonation; when the retrieval or a request fails, the
\* refresh fails and sends nothing after it.
C16_AtMostOneRequestEach ==
  /\ last.op = "refresh" =>
       /\ CountEvents("retrieve_subject_token") <= 1
       /\ CountEvents("http_sts") <= 1
       /\ CountEvents("http_iam")
            <= (IF Target.impersonated_credentials.set THEN 1 ELSE 0)
       /\ ( /\ CountEvents("retrieve_subject_token") = 1
            /\ retrieve_subject_token(RetrievingObject, last.a).outcome # "ok" )
           => /\ last.outcome # "ok"
              /\ CountEvents("http_sts") = 0
              /\ CountEvents("http_iam") = 0
       /\ (CountEvents("http_sts") = 1 /\ last.a.sts.kind # "ok")
           => /\ last.outcome # "ok"
              /\ CountEvents("http_iam") = 0
  /\ last.op = "au_refresh" =>
       /\ CountEvents("retrieve_subject_token") = 0
       /\ CountEvents("http_sts") <= 1
       /\ CountEvents("http_iam") = 0
       /\ last.a.kind # "ok" => last.outcome # "ok"

\* a refresh of a pluggable credential with impersonation took the subject
\* token from the output file and ended with an error without any request, after
\* a refresh of the authorized-user credential that sent its one request
C16_Witness ==
  /\ last.op = "refresh"
  /\ Target.cls = "pluggable"
  /\ Target.impersonated_credentials.set
  /\ CountEvents("retrieve_subject_token") = 1
  /\ CountEvents("read_output_file") = 1
  /\ retrieve_subject_token(RetrievingObject, last.a).outcome = "ok"
  /\ last.outcome # "ok"
  /\ aus[1].token = "AT1"

\* C17: a refresh of an authorized-user credential that returns normally on
\* a response with access_token a and expires_in n, the clock reading T0, has
\* sent one POST to token_url with the refresh_token grant of the stored
\* refresh token and Basic client authentication, and leaves token = a and
\* expiry = T0 + n.
C17_RefreshGrantAndResult ==
  ( /\ last.op = "au_refresh"
    /\ last.outcome = "ok"
    /\ Has(last.a.data, "access_token")
    /\ Has(last.a.data, "expires_in") )
  => /\ last.events = <<"http_sts">>
     /\ last.request.method = "POST"
     /\ last.request.url = Target.token_url
     /\ last.request.body = [grant_type |-> "refresh_token",
                             refresh_token |-> Target.refresh_token]
     /\ last.request.auth = [type |-> "basic", username |-> Target.client_id,
                             password |-> Target.client_secret]
     /\ aus[last.target].token = last.a.data.access_token
     /\ aus[last.target].expiry = last.t + last.a.data.expires_in

\* a successful refresh at a clock reading after 0 of a credential whose
\* refresh token an earlier refresh had replaced
C17_Witness ==
  /\ last.op = "au_refresh"
  /\ last.outcome = "ok"
  /\ last.t > 0
  /\ Target.refresh_token # "RT0"
  /\ Has(last.a.data, "access_token")
  /\ aus[last.target].token = last.a.data.access_token
  /\ aus[last.target].expiry = last.t + last.a.data.expires_in

\* the info of the round trip has the type and exactly the keys of the
\* fields of c that are not None
AuInfoWellFormed ==
  /\ DOMAIN last.a = AuKeysSet(Target) \cup {"type"}
  /\ last.a["type"] = "external_account_authorized_user"

\* C18 as stated: from_info(c.info) of an authorized-user credential equals
\* c in every constructor field, the expiry to the microsecond, in every
\* reachable state; c.info has the type and omits the fields that are None.
C18_InfoRoundTripExact ==
  last.op = "au_info_round_trip"
    => /\ last.outcome = "ok"
       /\ \A k \in AuFields : last.result[k] = Target[k]
       /\ last.result.expiry_micro = Target.expiry_micro
       /\ AuInfoWellFormed

\* C18, amended: from_info(c.info) equals c in every constructor field
\* except that its expiry is c's expiry cut to the whole second; c.info has
\* the type and omits the fields that are None.
C18_InfoRoundTripToTheSecond ==
  last.op = "au_info_round_trip"
    => /\ last.outcome = "ok"
       /\ \A k \in AuFields : last.result[k] = Target[k]
       /\ last.result.expiry_micro = 0
       /\ AuInfoWellFormed

\* the round trip of a credential that a refresh, at a clock reading with
\* microseconds, gave a token, an expiry and a new refresh token
C18_Witness ==
  /\ last.op = "au_info_round_trip"
  /\ Target.token = "AT2"
  /\ Target.refresh_token = "RT2"
  /\ Target.expiry_micro # 0
  /\ last.result.expiry = Target.expiry
  /\ "expiry" \in DOMAIN last.a

\* the fields of an authorized-user credential, the expiry with its
\* microseconds
AuAllFields == AuFields \cup {"expiry_micro"}

\* C19: with_quota_project(q) and with_token_uri(u) of an authorized-user
\* credential c return a credential with quota_project_id = q (token_url =
\* u) and every other field, token, expiry and refresh token among them,
\* equal to c's, and leave c as it was.
C19_DerivedKeepsOtherFields ==
  /\ last.op = "au_with_quota_project"
       => /\ last.result.quota_project_id = last.a
          /\ \A k \in AuAllFields \ {"quota_project_id"} :
               last.result[k] = Target[k]
          /\ aus = last.pre
  /\ last.op = "au_with_token_uri"
       => /\ last.result.token_url = last.a
          /\ \A k \in AuAllFields \ {"token_url"} :
               last.result[k] = Target[k]
          /\ aus = last.pre

\* with_token_uri on a credential that holds the token, the expiry and the
\* replaced refresh token of a refresh
C19_Witness ==
  /\ last.op = "au_with_token_uri"
  /\ Target.token = "AT2"
  /\ Target.refresh_token = "RT2"
  /\ Target.expiry # NoExpiry
  /\ Target.expiry_micro # 0
  /\ last.result.token_url # Target.token_url
  /\ last.result.token = "AT2"

\* C20: a credential is valid exactly when its token is set and the clock is
\* before expiry minus the skew; without a token it is neither valid nor
\* expired; right after a successful refresh with a lifetime above the skew
\* it is valid; from expiry minus skew on it is not valid; after a first
\* refresh that failed it is not valid.
C20_ValidIffTokenAndTime ==
  /\ \A i \in DOMAIN aus :
       /\ Valid(aus[i], now)
            <=> ( /\ aus[i].token # None
                  /\ aus[i].expiry # NoExpiry
                  /\ now < aus[i].expiry - Skew )
       /\ (aus[i].token = None /\ aus[i].expiry = NoExpiry)
            => (~Valid(aus[i], now) /\ ~Expired(aus[i], now))
       /\ (aus[i].expiry # NoExpiry /\ now >= aus[i].expiry - Skew)
            => ~Valid(aus[i], now)
  /\ ( /\ last.op = "au_refresh" /\ last.outcome = "ok"
       /\ Has(last.a.data, "expires_in") /\ last.a.data.expires_in > Skew
       /\ now = last.t )
     => Valid(aus[last.target], now)
  /\ ( /\ last.op = "au_refresh" /\ last.outcome # "ok"
       /\ Target.token = None )
     => ~Valid(aus[last.target], now)

\* no component follows a "projects" component of the audience, or only an
\* empty one, and no user project is given
NoProjectNumber(c) ==
  /\ \A k \in DOMAIN c.audience :
       c.audience[k] = "projects"
         => (k = Len(c.audience) \/ c.audience[k + 1] = "")
  /\ ~Truthy(c.workforce_pool_user_project)

\* C21: get_project_id on a credential whose project id is set returns that
\* id and sends nothing; on a credential without one whose effective scopes
\* are empty, or for which no project number can be derived, it returns null
\* and sends nothing.
C21_ProjectIdMemoAndSkip ==
  last.op = "get_project_id"
    => /\ Truthy(Target.project_id)
            => /\ last.outcome = "ok"
               /\ last.value = Target.project_id
               /\ last.events = <<>>
               /\ creds = last.pre
       /\ ( /\ ~Truthy(Target.project_id)
            /\ \/ EffectiveScopes(Target).items = <<>>
               \/ NoProjectNumber(Target) )
            => /\ last.outcome = "ok"
               /\ last.value = None
               /\ last.events = <<>>
               /\ creds = last.pre

\* get_project_id returned null without a request for a credential that has
\* a project number in its audience and an empty list of scopes
C21_Witness ==
  /\ last.op = "get_project_id"
  /\ Target.audience = AudWorkload
  /\ ~Target.scopes.isNone
  /\ Target.scopes.items = <<>>
  /\ ListTruthy(Target.default_scopes)
  /\ last.outcome = "ok"
  /\ last.value = None
  /\ last.events = <<>>

\* get_project_id has a lookup to make: no project id is stored, a project
\* number can be derived and the effective scopes are not empty
LookupDue(c) ==
  /\ ~Truthy(c.project_id)
  /\ ~NoProjectNumber(c)
  /\ EffectiveScopes(c).items # <<>>

\* C22: a get_project_id call that has a lookup to make, the resource
\* manager answering with a status other than 200 whatever the body, returns
\* null, raises nothing and leaves project_id unset.
C22_LookupFailureIsNull ==
  ( /\ last.op = "get_project_id"
    /\ LookupDue(Target)
    /\ last.a.crm.status # 200 )
  => /\ last.outcome = "ok"
     /\ last.value = None
     /\ ~Truthy(creds[last.target].project_id)

\* C23: a retrieve_subject_token call that gets as far as running an
\* executable that exits with a code other than 0 raises RefreshError and
\* returns no token.
C23_NonZeroExitIsRefreshError ==
  ( /\ last.op = "retrieve_subject_token"
    /\ InEvents("subprocess.run")
    /\ last.a.exe.returncode # 0 )
  => /\ last.outcome = "RefreshError"
     /\ last.value = None

\* e is what stands between the last "/" of url and ":generateAccessToken"
IsEmailOf(e, url) ==
  /\ Len(e) < Len(url.last)
  /\ SubSeq(url.last, 1, Len(e)) = e
  /\ url.last[Len(e) + 1] = ":generateAccessToken"
  /\ \A k \in DOMAIN e : e[k] # ":generateAccessToken"

\* C25: service_account_email of a constructed credential is null when it
\* has no impersonation URL; otherwise it is the non-empty text between the
\* last "/" of the URL and ":generateAccessToken", and the impersonation
\* client has it as its target principal.
C25_ServiceAccountEmail ==
  \A i \in DOMAIN creds :
    LET url == creds[i].service_account_impersonation_url
        email == service_account_email(url)
    IN  /\ ~UrlTruthy(url) => email = NoEmail
        /\ UrlTruthy(url)
             => /\ email # NoEmail
                /\ email # <<>>
                /\ IsEmailOf(email, url)
                /\ creds[i].impersonated_credentials.set
                /\ creds[i].impersonated_credentials.target_principal = email

\* a credential was constructed with an impersonation URL that names sa@p
C25_Witness ==
  /\ last.op = "construct"
  /\ last.outcome = "ok"
  /\ Returned.service_account_impersonation_url = UrlIam
  /\ Returned.impersonated_credentials.set
  /\ Returned.impersonated_credentials.target_principal = <<"sa@p">>
  /\ service_account_email(creds[1].service_account_impersonation_url) = NoEmail

\* C26: with_token_uri(u) with a u that the STS allow-list accepts returns a
\* credential with token_url = u and the impersonation URL and options,
\* scopes, default scopes, quota project, the other configuration and the
\* interactive flag of the original; with any other u it fails with a
\* configuration error and returns nothing.
C26_WithTokenUriKeepsConfig ==
  last.op = "with_token_uri"
    => IF validate_token_url(last.a.token_uri)
       THEN /\ last.outcome = "ok"
            /\ Returned.token_url = last.a.token_uri
            /\ SameConfig([Target EXCEPT !.token_url = last.a.token_uri], Returned)
            /\ Returned.scopes = Target.scopes
            /\ Returned.default_scopes = Target.default_scopes
            /\ Returned.quota_project_id = Target.quota_project_id
            /\ Returned.interactive = Target.interactive
       ELSE /\ last.outcome \in ConfigErrors
            /\ last.made = 0

IsRequestEvent(e) == e \in {"retrieve_subject_token", "http_sts", "http_iam"}

\* the retrieval and the requests of the latest call, in their order
RequestEvents == SelectSeq(last.events, IsRequestEvent)

\* C27: a refresh whose supplier delivers a subject token and whose
\* endpoints answer retrieves the token, then sends one request to STS and
\* then stores token and expiry; with impersonation the request to the
\* IAM-credentials endpoint follows the exchange of the source credential
\* and token and expiry are stored after it.
C27_RefreshOrder ==
  ( /\ last.op = "refresh"
    /\ retrieve_subject_token(RetrievingObject, last.a).outcome = "ok"
    /\ last.a.sts.kind = "ok"
    /\ Has(last.a.sts.data, "access_token")
    /\ Has(last.a.sts.data, "expires_in")
    /\ last.a.iam.kind = "ok" )
  => /\ last.outcome = "ok"
     /\ IF Target.impersonated_credentials.set
        THEN /\ RequestEvents = <<"retrieve_subject_token", "http_sts", "http_iam">>
             /\ creds[last.target].token = last.a.iam.accessToken
             /\ creds[last.target].expiry = last.a.iam.expireTime
        ELSE /\ RequestEvents = <<"retrieve_subject_token", "http_sts">>
             /\ creds[last.target].token = last.a.sts.data.access_token
             /\ creds[last.target].expiry = last.a.time + last.a.sts.data.expires_in

\* C24: a refresh answered by STS with a success response without
\* expires_in fails with RefreshError and leaves the credential with the
\* token and the expiry it had, not with the new token beside a missing or
\* earlier expiry.
C24_MissingExpiresInIsRefreshError ==
  ( /\ last.op = "au_refresh"
    /\ last.a.kind = "ok"
    /\ ~Has(last.a.data, "expires_in") )
  => /\ last.outcome = "RefreshError"
     /\ aus[last.target].token = Target.token
     /\ aus[last.target].expiry = Target.expiry

\* the latest call was a retrieve_subject_token of a credential with an
\* output file that passed the gate and the checks of interactive mode
PastGateWithOutputFile ==
  /\ last.op = "retrieve_subject_token"
  /\ last.a.allow = "1"
  /\ Truthy(Target.credential_source.output_file)
  /\ Target.interactive => is_workforce_pool(Target.audience)

\* a response with every field of a successful response
Complete(r) ==
  /\ Has(r, "version") /\ Has(r, "success") /\ Has(r, "token_type")
  /\ Has(r, "expiration_time")
  /\ Has(r, "id_token") \/ Has(r, "saml_response")

\* the output file is missing or unreadable, is not JSON, or holds a
\* complete response that expired before the call
StaleCache ==
  \/ last.a.file.kind \in {"missing", "garbage"}
  \/ /\ last.a.file.kind = "json"
     /\ Complete(last.a.file.data)
     /\ last.a.file.data.expiration_time < last.a.time

\* C28: with the gate open and an output file configured, a file that is
\* missing, unreadable, not JSON or holds a complete response that has
\* expired raises nothing for the cache: the call goes on to the executable,
\* which is run, and ends as the run ends.
C28_StaleCacheRunsExecutable ==
  (PastGateWithOutputFile /\ StaleCache)
    => /\ InEvents("subprocess.run")
       /\ InEvents("spawn")
       /\ last.a.exe.returncode # 0 => last.outcome = "RefreshError"

\* C29: a cached response that lacks expiration_time counts as expired, in
\* interactive and in non-interactive mode: the call raises nothing for it
\* and goes on to run the executable.
C29_NoExpirationIsExpired ==
  ( /\ PastGateWithOutputFile
    /\ last.a.file.kind = "json"
    /\ WellFormed(last.a.file.data @@ [expiration_time |-> 0])
    /\ ~Has(last.a.file.data, "expiration_time") )
  => /\ last.outcome \notin ConfigErrors
     /\ InEvents("subprocess.run")

\* the response lacks version, success or token_type
LacksRequired(r) ==
  ~Has(r, "version") \/ ~Has(r, "success") \/ ~Has(r, "token_type")

\* the latest call read a JSON response from the output file
CachedResponseRead ==
  /\ PastGateWithOutputFile
  /\ last.a.file.kind = "json"

MissingFieldDecides(r, t) ==
  \/ ~Has(r, "version")
  \/ /\ r.version <= EXECUTABLE_SUPPORTED_MAX_VERSION
     /\ \/ ~Has(r, "success")
        \/ /\ r.success
           /\ ~Has(r, "token_type")
           /\ Has(r, "expiration_time") => r.expiration_time >= t

\* a response with a version and a shortcoming the parser reports as
\* RefreshError before it looks for the missing field: an unsupported
\* version, a failure with code and message, or an expiration time in the
\* past
RefreshErrorFirst(r, t) ==
  /\ Has(r, "version")
  /\ \/ r.version > EXECUTABLE_SUPPORTED_MAX_VERSION
     \/ /\ Has(r, "success")
        /\ \/ ~r.success /\ Has(r, "code") /\ Has(r, "message")
           \/ r.success /\ Has(r, "expiration_time") /\ r.expiration_time < t

AllRequired(c, r) ==
  /\ Has(r, "version") /\ Has(r, "success")
  /\ IF ~r.success
     THEN Has(r, "code") /\ Has(r, "message")
     ELSE /\ Has(r, "token_type")
          /\ r.token_type \in {TokenTypeJwt, TokenTypeIdToken} => Has(r, "id_token")
          /\ r.token_type = TokenTypeSaml2 => Has(r, "saml_response")
          /\ (~c.interactive /\ Truthy(c.credential_source.output_file))
               => Has(r, "expiration_time")

\* what the parser made of the response the latest call read from the
\* output file
ParsedCache == parse_subject_token(Target, last.a.file.data, last.a.time)

\* C31: for a response with all required fields, version > 1 gives
\* RefreshError, success = false gives RefreshError carrying code and
\* message, a success that expired before the current time gives
\* RefreshError; otherwise an OIDC token type returns id_token, the SAML type
\* returns saml_response and any other type gives RefreshError.
C31_ParseCompleteResponse ==
  (CachedResponseRead /\ AllRequired(Target, last.a.file.data))
    => LET r == last.a.file.data
           p == ParsedCache
       IN  IF r.version > 1 THEN p.outcome = "RefreshError"
           ELSE IF ~r.success
           THEN p.outcome = "RefreshError" /\ p.detail = <<r.code, r.message>>
           ELSE IF Has(r, "expiration_time") /\ r.expiration_time < last.a.time
           THEN p.outcome = "RefreshError"
           ELSE IF r.token_type \in {TokenTypeJwt, TokenTypeIdToken}
           THEN p.outcome = "ok" /\ p.value = r.id_token
           ELSE IF r.token_type = TokenTypeSaml2
           THEN p.outcome = "ok" /\ p.value = r.saml_response
           ELSE p.outcome = "RefreshError"

\* the call read a response of an unknown token type that had not expired,
\* passed over the RefreshError and went on to the executable
C31_Witness ==
  /\ CachedResponseRead
  /\ last.a.file = TextJson(RespBadType(2))
  /\ last.a.time = 1
  /\ ParsedCache.outcome = "RefreshError"
  /\ InEvents("subprocess.run")

\* C32: with the gate open, an interactive credential without an output
\* file or with an audience that is not a workforce pool makes
\* retrieve_subject_token raise a configuration error before the output file
\* is read and before any subprocess; with both in place the call gets as far
\* as the output file.
C32_InteractiveNeedsFileAndWorkforce ==
  ( /\ last.op = "retrieve_subject_token"
    /\ last.a.allow = "1"
    /\ Target.interactive )
  => IF /\ Truthy(Target.credential_source.output_file)
        /\ is_workforce_pool(Target.audience)
     THEN InEvents("read_output_file")
     ELSE /\ last.outcome \in ConfigErrors
          /\ last.events = <<>>

\* an interactive credential of a workload pool with an output file that
\* holds a token still valid was refused
C32_Witness ==
  /\ last.op = "retrieve_subject_token"
  /\ last.a.allow = "1"
  /\ Target.interactive
  /\ Target.audience = AudWorkload
  /\ Truthy(Target.credential_source.output_file)
  /\ last.a.file = TextJson(RespOk(2))
  /\ last.a.time = 0
  /\ last.outcome = "ValueError"
  /\ last.events = <<>>

\* C33: the cached-token fast path belongs to non-interactive mode: an
\* interactive credential's retrieve_subject_token returns a token only
\* after it has run the executable.
C33_NoFastPathWhenInteractive ==
  ( /\ last.op = "retrieve_subject_token"
    /\ Target.interactive
    /\ last.outcome = "ok" )
  => /\ InEvents("subprocess.run")
     /\ InEvents("spawn")

\* the environment the latest call handed to subprocess.run
ChildEnv ==
  IF last.op = "revoke" THEN RevokeEnv(Target) ELSE SubjectTokenEnv(Target)

\* C34: the environment retrieve_subject_token hands to the child holds
\* AUDIENCE, TOKEN_TYPE, ID, INTERACTIVE and REVOKE, all strings: ID the
\* impersonated email or "", INTERACTIVE "1" or "0" by mode, REVOKE "0" ("1"
\* when revoke makes the call); IMPERSONATED_EMAIL and OUTPUT_FILE are there
\* exactly when an impersonation URL, respectively an output file, is
\* configured.
C34_ChildEnvironment ==
  ( /\ last.op \in {"retrieve_subject_token", "revoke"}
    /\ InEvents("subprocess.run") )
  => LET env == ChildEnv
         email == service_account_email(Target.service_account_impersonation_url)
     IN  /\ { "GOOGLE_EXTERNAL_ACCOUNT_AUDIENCE", "GOOGLE_EXTERNAL_ACCOUNT_TOKEN_TYPE",
               "GOOGLE_EXTERNAL_ACCOUNT_ID", "GOOGLE_EXTERNAL_ACCOUNT_INTERACTIVE",
               "GOOGLE_EXTERNAL_ACCOUNT_REVOKE" } \subseteq DOMAIN env
         /\ \A k \in DOMAIN env : env[k].t = "str"
         /\ env.GOOGLE_EXTERNAL_ACCOUNT_ID =
              (IF Target.service_account_impersonation_url.text = "None"
               THEN PyStr("") ELSE EmailValue(email))
         /\ last.op = "retrieve_subject_token"
              => /\ env.GOOGLE_EXTERNAL_ACCOUNT_INTERACTIVE =
                      PyStr(IF Target.interactive THEN "1" ELSE "0")
                 /\ env.GOOGLE_EXTERNAL_ACCOUNT_REVOKE = PyStr("0")
                 /\ ("GOOGLE_EXTERNAL_ACCOUNT_OUTPUT_FILE" \in DOMAIN env)
                      <=> Target.credential_source.output_file # None
         /\ last.op = "revoke" => env.GOOGLE_EXTERNAL_ACCOUNT_REVOKE = PyStr("1")
         /\ ("GOOGLE_EXTERNAL_ACCOUNT_IMPERSONATED_EMAIL" \in DOMAIN env)
              <=> Target.service_account_impersonation_url.text # "None"

\* the timeout retrieve_subject_token selects, in milliseconds
SelectedTimeout(c) ==
  IF c.interactive THEN c.interactive_timeout_millis ELSE c.timeout_millis

\* C35: a retrieve_subject_token call that gets as far as running an
\* executable that takes longer than the selected timeout ends the child
\* and raises RefreshError; the credential stays as it was.
C35_TimeoutIsRefreshError ==
  ( /\ last.op = "retrieve_subject_token"
    /\ InEvents("subprocess.run")
    /\ last.a.exe.duration_millis > SelectedTimeout(Target) )
  => /\ last.outcome = "RefreshError"
     /\ InEvents("kill")
     /\ creds = last.pre

\* the latest call constructed a pluggable credential from an executable
\* source
ConstructingPluggable ==
  /\ last.op = "construct"
  /\ last.a.cls = "pluggable"
  /\ last.a.args.credential_source.executable

\* C36: the construction of an executable-sourced credential fails with a
\* configuration error when a supplied timeout_millis (0 and negative
\* values included) is outside [5000, 120000] or a supplied
\* interactive_timeout_millis is outside [300000, 1800000]; a timeout that
\* is not supplied becomes 30000, respectively 300000.
C36_TimeoutsInRange ==
  ConstructingPluggable
    => LET src == last.a.args.credential_source
           tm == src.timeout_millis
           itm == src.interactive_timeout_millis
       IN  /\ (tm # NoneInt /\ (tm < 5000 \/ tm > 120000))
                => last.outcome \in ConfigErrors
           /\ (itm # NoneInt /\ (itm < 300000 \/ itm > 1800000))
                => last.outcome \in ConfigErrors
           /\ last.outcome = "ok"
                => /\ tm = NoneInt => Returned.timeout_millis = 30000
                   /\ itm = NoneInt => Returned.interactive_timeout_millis = 300000

\* C38: the construction of a pluggable credential whose credential_source
\* holds environment_id fails with a configuration error.
C38_PluggableRejectsEnvironmentId ==
  (ConstructingPluggable /\ last.a.args.credential_source.environment_id)
    => last.outcome \in ConfigErrors

\* s is a source credential for c: same class, audience, token URL,
\* credential source, client id and secret and scopes, no impersonation URL
\* and no source credential of its own
SourceFor(c, s) ==
  /\ s.cls = c.cls
  /\ s.audience = c.audience
  /\ s.token_url = c.token_url
  /\ s.credential_source = c.credential_source
  /\ s.client_id = c.client_id
  /\ s.client_secret = c.client_secret
  /\ s.scopes = c.scopes
  /\ s.default_scopes = c.default_scopes
  /\ s.service_account_impersonation_url = UrlNone
  /\ ~s.impersonated_credentials.set

\* C39: a construction with an impersonation URL ends, and when it
\* succeeds it has created the credential and exactly one source
\* credential, of the same class and with the same audience, token URL,
\* credential source, client authentication and scopes, without
\* impersonation URL and without a source of its own; no credential is its
\* own source, directly or through others.
C39_OneSourceDepthOne ==
  /\ \A i \in DOMAIN creds :
       IF UrlTruthy(creds[i].service_account_impersonation_url)
       THEN /\ creds[i].impersonated_credentials.set
            /\ creds[i].impersonated_credentials.source \in 1 .. (i - 1)
            /\ SourceFor(creds[i], creds[creds[i].impersonated_credentials.source])
       ELSE ~creds[i].impersonated_credentials.set
  /\ ( /\ last.op = "construct"
       /\ UrlTruthy(last.a.args.service_account_impersonation_url) )
       => /\ last.made <= 2
          /\ last.outcome = "ok"
               => /\ last.made = 2
                  /\ Returned.impersonated_credentials.source = Len(creds) - 1

\* a pluggable credential with scopes was constructed with an impersonation
\* URL
C39_Witness ==
  /\ last.op = "construct"
  /\ last.outcome = "ok"
  /\ last.a.cls = "pluggable"
  /\ last.a.args.service_account_impersonation_url = UrlIam
  /\ ~last.a.args.scopes.isNone
  /\ last.made = 2
  /\ ~creds[Len(creds) - 1].scopes.isNone

\* credential d is credential c but for token, expiry and project_id and
\* for the token and expiry its impersonation client holds
SameButTokenState(c, d) ==
  [d EXCEPT !.token = c.token,
            !.expiry = c.expiry,
            !.project_id = c.project_id,
            !.impersonated_credentials =
               [@ EXCEPT !.token = c.impersonated_credentials.token,
                         !.expiry = c.impersonated_credentials.expiry]] = c

\* C40: refresh, get_project_id, retrieve_subject_token and revoke create
\* no credential and leave the configuration of every credential, its class
\* (the supplier), its token URL and client authentication (the STS client)
\* and the settings of its impersonation client as they were; they write
\* token, expiry and project_id only.
C40_OnlyTokenStateWritten ==
  last.op \in {"refresh", "get_project_id", "retrieve_subject_token", "revoke"}
    => /\ Len(creds) = Len(last.pre)
       /\ \A i \in DOMAIN creds : SameButTokenState(last.pre[i], creds[i])

\* get_project_id on a credential with scopes and a project number called
\* refresh, which retrieved a subject token
C40_Witness ==
  /\ last.op = "get_project_id"
  /\ LookupDue(Target)
  /\ ~Target.scopes.isNone
  /\ InEvents("retrieve_subject_token")
  /\ Len(creds) = Len(last.pre)

\* C37: revoke spawns the executable only with the gate at "1" and the
\* credential in interactive mode, and without either raises a configuration
\* error and spawns nothing; a child it spawns gets
\* GOOGLE_EXTERNAL_ACCOUNT_REVOKE = "1", a child that exits with a code
\* other than 0 makes it raise RefreshError, and no call changes a
\* credential.
C37_RevokeGatedAndFramed ==
  last.op = "revoke"
    => /\ InEvents("spawn") => (last.a.allow = "1" /\ Target.interactive)
       /\ ~(last.a.allow = "1" /\ Target.interactive)
            => /\ last.outcome \in ConfigErrors
               /\ last.events = <<>>
       /\ InEvents("spawn")
            => RevokeEnv(Target).GOOGLE_EXTERNAL_ACCOUNT_REVOKE = PyStr("1")
       /\ (InEvents("spawn") /\ ~InEvents("kill") /\ last.a.exe.returncode # 0)
            => last.outcome = "RefreshError"
       /\ creds = last.pre

\* the executable was spawned by revoke and exited with code 2
C37_Witness ==
  /\ last.op = "revoke"
  /\ InEvents("spawn")
  /\ last.a.exe.returncode = 2
  /\ last.outcome = "RefreshError"

====
